---------------------------- MODULE Spec2Model ----------------------------
(***************************************************************************)
(* Filename synthesis and deduplication engine of singlefile-archiver      *)
(* (src/src/singlefile_archiver/commands/optimize.py).                     *)
(*                                                                         *)
(* A Python str is modelled as a sequence of Unicode code points, a bytes  *)
(* object as a sequence of naturals in 0..255.  UTF-8 encoding, strict     *)
(* decoding, str.lower and str.rstrip are computed, not assumed.           *)
(***************************************************************************)
EXTENDS Integers, Sequences, FiniteSets, TLC

VARIABLES
    existing_stems,  \* generate_rename_operations: stems found in the directory
    used_stems,      \* generate_rename_operations: stems issued in this batch
    issued,          \* the unique_stem of every operation, in list order
    byte_budget,     \* max_bytes of every call of the run
    input,           \* the arguments drawn for a call of a pure function
    last             \* the latest call: its arguments and what it returned

vars == <<existing_stems, used_stems, issued, byte_budget, input, last>>

(***************************************************************************)
(* Text literals.  S("abc") is the code point sequence of an ASCII         *)
(* literal; non-ASCII text is written with its code points.                *)
(***************************************************************************)
AsciiLow == "#$%&'()*+,-./0123456789:;<=>?@ABCDEFGHIJKLMNOPQRSTUVWXYZ["

AsciiMid == "]^_"

AsciiHigh == "abcdefghijklmnopqrstuvwxyz{|}~"

\* ord(c) of a printable ASCII character (quote, backslash and backtick
\* excepted)
Ord ==
    [c \in {" ", "!"}
           \cup {SubSeq(AsciiLow, i, i) : i \in 1..Len(AsciiLow)}
           \cup {SubSeq(AsciiMid, i, i) : i \in 1..Len(AsciiMid)}
           \cup {SubSeq(AsciiHigh, i, i) : i \in 1..Len(AsciiHigh)} |->
        IF c = " " THEN 32
        ELSE IF c = "!" THEN 33
        ELSE IF \E i \in 1..Len(AsciiLow) : SubSeq(AsciiLow, i, i) = c
        THEN 34 + (CHOOSE i \in 1..Len(AsciiLow) : SubSeq(AsciiLow, i, i) = c)
        ELSE IF \E i \in 1..Len(AsciiMid) : SubSeq(AsciiMid, i, i) = c
        THEN 92 + (CHOOSE i \in 1..Len(AsciiMid) : SubSeq(AsciiMid, i, i) = c)
        ELSE 96 + (CHOOSE i \in 1..Len(AsciiHigh) : SubSeq(AsciiHigh, i, i) = c)]

S(lit) == [i \in 1..Len(lit) |-> Ord[SubSeq(lit, i, i)]]

\* U+4E0A U+7684, the connective of the platform/user prefix
Connective == <<19978, 30340>>

\* U+2026, the ellipsis marker appended by the truncators
Ellipsis == <<8230>>

\* n copies of the code point c
Rep(c, n) == [i \in 1..n |-> c]

(***************************************************************************)
(* UTF-8: text.encode('utf-8'), bytes.decode('utf-8'), len(...)            *)
(***************************************************************************)
EncodeChar(cp) ==
    IF cp < 128 THEN <<cp>>
    ELSE IF cp < 2048 THEN <<192 + (cp \div 64), 128 + (cp % 64)>>
    ELSE IF cp < 65536
         THEN <<224 + (cp \div 4096), 128 + ((cp \div 64) % 64), 128 + (cp % 64)>>
    ELSE <<240 + (cp \div 262144), 128 + ((cp \div 4096) % 64),
           128 + ((cp \div 64) % 64), 128 + (cp % 64)>>

\* the bytes of text[lo..hi]
RECURSIVE EncodeRange(_, _, _)
EncodeRange(text, lo, hi) ==
    IF lo > hi THEN <<>>
    ELSE IF lo = hi THEN EncodeChar(text[lo])
    ELSE EncodeRange(text, lo, (lo + hi) \div 2)
         \o EncodeRange(text, (lo + hi) \div 2 + 1, hi)

Encode(text) == EncodeRange(text, 1, Len(text))

\* len(text.encode('utf-8'))
ByteLen(text) == Len(Encode(text))

\* number of bytes announced by a lead byte, 0 for a byte that cannot lead
LeadLen(b) ==
    IF b < 128 THEN 1
    ELSE IF b >= 194 /\ b <= 223 THEN 2
    ELSE IF b >= 224 /\ b <= 239 THEN 3
    ELSE IF b >= 240 /\ b <= 244 THEN 4
    ELSE 0

IsCont(b) == b >= 128 /\ b <= 191

DecodeChar(bs) ==
    IF Len(bs) = 1 THEN bs[1]
    ELSE IF Len(bs) = 2 THEN (bs[1] - 192) * 64 + (bs[2] - 128)
    ELSE IF Len(bs) = 3
         THEN (bs[1] - 224) * 4096 + (bs[2] - 128) * 64 + (bs[3] - 128)
    ELSE (bs[1] - 240) * 262144 + (bs[2] - 128) * 4096
         + (bs[3] - 128) * 64 + (bs[4] - 128)

DecodeError == [ok |-> FALSE, text |-> <<>>]

\* bytes.decode('utf-8'): ok = FALSE stands for UnicodeDecodeError
Decode(bs) ==
    LET starts == SelectSeq([i \in 1..Len(bs) |-> i],
                            LAMBDA i : ~IsCont(bs[i]))
        WellFormed(i) ==
            /\ LeadLen(bs[i]) # 0
            /\ i + LeadLen(bs[i]) - 1 <= Len(bs)
            /\ \A k \in (i + 1)..(i + LeadLen(bs[i]) - 1) : IsCont(bs[k])
            /\ i + LeadLen(bs[i]) <= Len(bs) => ~IsCont(bs[i + LeadLen(bs[i])])
    IN
    IF bs = <<>> THEN [ok |-> TRUE, text |-> <<>>]
    ELSE IF IsCont(bs[1]) \/ \E j \in 1..Len(starts) : ~WellFormed(starts[j])
    THEN DecodeError
    ELSE [ok |-> TRUE,
          text |-> [j \in 1..Len(starts) |->
                       DecodeChar(SubSeq(bs, starts[j],
                                         starts[j] + LeadLen(bs[starts[j]]) - 1))]]

(***************************************************************************)
(* str helpers                                                             *)
(***************************************************************************)
\* str.lower() on one code point: ASCII and Latin-1 capitals fold, every
\* other code point of the model's alphabet has no lower-case mapping
LowerChar(cp) ==
    IF cp >= 65 /\ cp <= 90 THEN cp + 32
    ELSE IF cp >= 192 /\ cp <= 222 /\ cp # 215 THEN cp + 32
    ELSE cp

Lower(text) == [i \in 1..Len(text) |-> LowerChar(text[i])]

\* text[:n]
Prefix(text, n) == SubSeq(text, 1, IF n < Len(text) THEN n ELSE Len(text))

\* text.rstrip(chars)
RECURSIVE RStrip(_, _)
RStrip(text, chars) ==
    IF text # <<>> /\ text[Len(text)] \in chars
    THEN RStrip(SubSeq(text, 1, Len(text) - 1), chars)
    ELSE text

\* the set '_-. ' of _ensure_unique_filename's clean-up
TrimChars == {95, 45, 46, 32}

\* the bytes of '.html', reserved by every assembler and by the resolver
extension_bytes == 5

(***************************************************************************)
(* _truncate_by_bytes (optimize.py 281-308)                                *)
(***************************************************************************)
\* the while loop of lines 302-306: decode, on UnicodeDecodeError drop the
\* last byte and try again
RECURSIVE BackUpToBoundary(_)
BackUpToBoundary(truncated) ==
    IF Len(truncated) > 0
    THEN LET d == Decode(truncated) IN
         IF d.ok THEN d.text
         ELSE BackUpToBoundary(SubSeq(truncated, 1, Len(truncated) - 1))
    ELSE <<>>

\* mutant of _truncate_by_bytes: slices one byte less than it may keep
truncate_by_bytes_OneShort(text, max_bytes) ==
    IF max_bytes <= 0 THEN <<>>
    ELSE LET encoded == Encode(text) IN
         IF Len(encoded) <= max_bytes THEN text
         ELSE BackUpToBoundary(SubSeq(encoded, 1, max_bytes - 1))

_truncate_by_bytes(text, max_bytes) ==
    IF max_bytes <= 0 THEN <<>>
    ELSE LET encoded == Encode(text) IN
         IF Len(encoded) <= max_bytes THEN text
         ELSE BackUpToBoundary(SubSeq(encoded, 1, max_bytes))

(***************************************************************************)
(* _byte_aware_semantic_truncate (optimize.py 218-278)                     *)
(***************************************************************************)
\* sentence_endings: . ! ? and the full-width U+3002 U+FF01 U+FF1F
sentence_endings == {46, 33, 63, 12290, 65281, 65311}

\* phrase_endings: , ; : the full-width U+FF0C U+FF1B U+FF1A and the double
\* quote (the list's last entry is the two-character string ', ', which no
\* single character equals)
phrase_endings == {44, 59, 58, 65292, 65307, 65306, 34}

\* ' \t\n' and U+FF0C U+3002 U+FF1A U+FF1B, the break points of line 269
break_chars == {32, 9, 10, 65292, 12290, 65306, 65307}

\* target_layers = [max_bytes, max_bytes * 0.85, max_bytes * 0.75], each
\* written as max_bytes * percent / 100
layer_percents == <<100, 85, 75>>

Min(set) == CHOOSE x \in set : \A y \in set : x <= y

Max(set) == CHOOSE x \in set : \A y \in set : x >= y

\* mutant of SentenceCut: the window starts at half of the layer
SentenceCut_HalfWindow(text, max_bytes, percent) ==
    {k \in 1..Len(text) :
        /\ text[k] \in sentence_endings
        /\ 100 * ByteLen(SubSeq(text, 1, k)) <= max_bytes * percent
        /\ 1000 * ByteLen(SubSeq(text, 1, k)) >= 5 * max_bytes * percent}

\* Strategy 1, lines 243-247: the first sentence ending whose prefix has
\* between 0.6 * layer_bytes and layer_bytes bytes
SentenceCut(text, max_bytes, percent) ==
    {k \in 1..Len(text) :
        /\ text[k] \in sentence_endings
        /\ 100 * ByteLen(SubSeq(text, 1, k)) <= max_bytes * percent
        /\ 1000 * ByteLen(SubSeq(text, 1, k)) >= 6 * max_bytes * percent}

\* Strategy 2, lines 250-254: the first phrase ending with between
\* 0.7 * layer_bytes and layer_bytes - 3 bytes in front of it
PhraseCut(text, max_bytes, percent) ==
    {k \in 1..Len(text) :
        /\ text[k] \in phrase_endings
        /\ 100 * ByteLen(SubSeq(text, 1, k - 1)) <= max_bytes * percent - 300
        /\ 1000 * ByteLen(SubSeq(text, 1, k - 1)) >= 7 * max_bytes * percent}

\* Strategy 3, lines 258-270: the positions truncate_pos of
\* range(max_char_estimate, max(layer_bytes // 4, 10), -1) that are returned
\* when visited
BoundaryCut(text, max_bytes, percent) ==
    LET half == (max_bytes * percent) \div 200
        max_char_estimate == IF Len(text) < half THEN Len(text) ELSE half
        quarter == (max_bytes * percent) \div 400
        stop == IF quarter > 10 THEN quarter ELSE 10
    IN
    {truncate_pos \in (stop + 1)..max_char_estimate :
        /\ truncate_pos < Len(text)
        /\ text[truncate_pos + 1] \in break_chars
        /\ 100 * ByteLen(SubSeq(text, 1, truncate_pos))
               <= max_bytes * percent - 300}

\* layers two and three are floats: range() of line 260 raises TypeError
\* unless both of its bounds are the integers len(text) and 10
RangeIsInt(text, max_bytes, percent) ==
    \/ percent = 100
    \/ /\ Len(text) <= (max_bytes * percent) \div 200
       /\ (max_bytes * percent) \div 400 < 10

TypeError == [text |-> <<>>, exit |-> "TypeError"]

\* the body of the for loop over target_layers, from layer number k on
RECURSIVE TruncateLayers(_, _, _)
TruncateLayers(text, max_bytes, k) ==
    IF k > Len(layer_percents)
    THEN [text |-> _truncate_by_bytes(text, max_bytes - 3) \o Ellipsis,
          exit |-> "fallback"]
    ELSE
    LET percent  == layer_percents[k]
        sentence == SentenceCut(text, max_bytes, percent)
        phrase   == PhraseCut(text, max_bytes, percent)
        boundary == BoundaryCut(text, max_bytes, percent)
        prefix   == _truncate_by_bytes(text, max_bytes - 3)
    IN
    IF max_bytes * percent < 1500
    THEN TruncateLayers(text, max_bytes, k + 1)
    ELSE IF sentence # {}
    THEN [text |-> SubSeq(text, 1, Min(sentence)), exit |-> "sentence"]
    ELSE IF phrase # {}
    THEN [text |-> SubSeq(text, 1, Min(phrase) - 1) \o Ellipsis,
          exit |-> "phrase"]
    ELSE IF ~RangeIsInt(text, max_bytes, percent)
    THEN TypeError
    ELSE IF boundary # {}
    THEN [text |-> SubSeq(text, 1, Max(boundary)) \o Ellipsis,
          exit |-> "boundary"]
    ELSE IF percent # 100
    THEN TypeError   \* line 299 slices bytes with a float
    ELSE IF prefix # <<>>
    THEN [text |-> prefix \o Ellipsis, exit |-> "prefix"]
    ELSE TruncateLayers(text, max_bytes, k + 1)

\* mutant of SemanticTruncate: a text of exactly max_bytes bytes is cut
SemanticTruncate_StrictFit(text, max_bytes) ==
    IF ByteLen(text) < max_bytes
    THEN [text |-> text, exit |-> "fits"]
    ELSE IF max_bytes < 15
    THEN [text |-> _truncate_by_bytes(text, max_bytes - 3) \o Ellipsis,
          exit |-> "short"]
    ELSE TruncateLayers(text, max_bytes, 1)

\* Returns the truncated text and the return statement that produced it.
SemanticTruncate(text, max_bytes) ==
    IF ByteLen(text) <= max_bytes
    THEN [text |-> text, exit |-> "fits"]
    ELSE IF max_bytes < 15
    THEN [text |-> _truncate_by_bytes(text, max_bytes - 3) \o Ellipsis,
          exit |-> "short"]
    ELSE TruncateLayers(text, max_bytes, 1)

_byte_aware_semantic_truncate(text, max_bytes) ==
    SemanticTruncate(text, max_bytes).text

(***************************************************************************)
(* Regular expressions of the extractor, on code point sequences.          *)
(* Titles of the model hold no '/', no '.com' and no 'youtu.be', so the    *)
(* domain table of lines 389-413 and the URL patterns of lines 174-180     *)
(* match nothing in them; TitleInAlphabet states the restriction.          *)
(***************************************************************************)
\* \s: ASCII white space, U+00A0 and U+3000
WhiteSpace == {9, 10, 11, 12, 13, 32, 160, 12288}

\* text[p:].startswith(lit), p counted from 1
HasAt(text, lit, p) ==
    /\ p >= 1
    /\ p + Len(lit) - 1 <= Len(text)
    /\ SubSeq(text, p, p + Len(lit) - 1) = lit

\* lit in text
Contains(text, lit) == \E p \in 1..(Len(text) - Len(lit) + 1) : HasAt(text, lit, p)

\* a character class [set] or, negated, [^set]
InClass(c, set, negated) == (c \in set) # negated

\* length of the longest run of class characters starting at p (greedy *)
RunLen(text, p, set, negated) ==
    Min({q \in p..(Len(text) + 1) :
            q = Len(text) + 1 \/ ~InClass(text[q], set, negated)}) - p

\* [a-zA-Z0-9_-]
UserNameChars == (97..122) \cup (65..90) \cup (48..57) \cup {95, 45}

TitleInAlphabet(title) ==
    /\ ~Contains(title, S("/"))
    /\ ~Contains(Lower(title), S(".com"))
    /\ ~Contains(Lower(title), S("youtu.be"))
    /\ ~Contains(title, S("[URL]"))

(***************************************************************************)
(* _extract_platform_info (optimize.py 355-466)                            *)
(***************************************************************************)
NoPlatform == [found |-> FALSE, platform |-> <<>>, user |-> <<>>,
               content_id |-> <<>>]

PlatformInfo(platform, user) ==
    [found |-> TRUE, platform |-> platform, user |-> user, content_id |-> <<>>]

\* line 371: (?:x|twitter)_<connective>_([^_\s<U+FF1A>"]+), IGNORECASE, on
\* title; the positions where the pattern matches
XUserStarts(title) ==
    LET title_lower == Lower(title)
        alts == {alt \o Connective \o S("_") : alt \in {S("x_"), S("twitter_")}}
    IN
    {p \in 1..Len(title) :
        \E alt \in alts :
            /\ HasAt(title_lower, alt, p)
            /\ RunLen(title, p + Len(alt), {95, 65306, 34} \cup WhiteSpace,
                      TRUE) >= 1}

XUser(title) ==
    LET p     == Min(XUserStarts(title))
        start == IF HasAt(Lower(title), S("x_"), p) THEN p + 5 ELSE p + 11
    IN SubSeq(title, start,
              start + RunLen(title, start, {95, 65306, 34} \cup WhiteSpace,
                             TRUE) - 1)

\* line 380: instagram[_\s]*<connective>[_\s]*([^_\s]+) on title_lower; the
\* start of group 1 for a match at p, 0 when there is none
InstagramGroup(lower, p) ==
    IF ~HasAt(lower, S("instagram"), p) THEN 0
    ELSE LET q == p + 9 + RunLen(lower, p + 9, {95} \cup WhiteSpace, FALSE) IN
         IF ~HasAt(lower, Connective, q) THEN 0
         ELSE LET g == q + 2 + RunLen(lower, q + 2, {95} \cup WhiteSpace, FALSE)
              IN IF RunLen(lower, g, {95} \cup WhiteSpace, TRUE) >= 1
                 THEN g ELSE 0

InstagramStarts(lower) == {p \in 1..Len(lower) : InstagramGroup(lower, p) > 0}

InstagramUser(lower) ==
    LET g == InstagramGroup(lower, Min(InstagramStarts(lower))) IN
    SubSeq(lower, g, g + RunLen(lower, g, {95} \cup WhiteSpace, TRUE) - 1)

\* line 441: <connective>[_\s]*([^_\s<U+FF0C><U+3002><U+FF1A>]{2,}) on title
ContextGroup(title, p) ==
    IF ~HasAt(title, Connective, p) THEN 0
    ELSE LET g == p + 2 + RunLen(title, p + 2, {95} \cup WhiteSpace, FALSE) IN
         IF RunLen(title, g, {95, 65292, 12290, 65306} \cup WhiteSpace, TRUE) >= 2
         THEN g ELSE 0

ContextStarts(title) == {p \in 1..Len(title) : ContextGroup(title, p) > 0}

ContextUser(title) ==
    LET g == ContextGroup(title, Min(ContextStarts(title))) IN
    SubSeq(title, g,
           g + RunLen(title, g, {95, 65292, 12290, 65306} \cup WhiteSpace, TRUE)
             - 1)

\* line 442 and line 117: @([a-zA-Z0-9_-]+)
MentionStarts(title) ==
    {p \in 1..Len(title) :
        title[p] = 64 /\ RunLen(title, p + 1, UserNameChars, FALSE) >= 1}

MentionUser(title) ==
    LET p == Min(MentionStarts(title)) IN
    SubSeq(title, p + 1, p + RunLen(title, p + 1, UserNameChars, FALSE))

\* line 443: [_\s]([a-zA-Z0-9_-]{3,})[_\s]; the greedy group gives back
\* characters until a '_' or white space follows it.  The lengths group 1
\* may take for a match at p.
UnderscoreLengths(title, p) ==
    IF ~(p <= Len(title) /\ title[p] \in {95} \cup WhiteSpace) THEN {}
    ELSE {k \in 3..RunLen(title, p + 1, UserNameChars, FALSE) :
             /\ p + 1 + k <= Len(title)
             /\ title[p + 1 + k] \in {95} \cup WhiteSpace}

UnderscoreStarts(title) ==
    {p \in 1..Len(title) : UnderscoreLengths(title, p) # {}}

UnderscoreUser(title) ==
    LET p == Min(UnderscoreStarts(title)) IN
    SubSeq(title, p + 1, p + Max(UnderscoreLengths(title, p)))

\* lines 451-458
ContextPlatform(title_lower) ==
    IF Contains(title_lower, S("x_")) \/ Contains(title_lower, S("twitter"))
    THEN S("X")
    ELSE IF Contains(title_lower, S("instagram")) THEN S("Instagram")
    ELSE IF Contains(title_lower, <<24494, 21338>>)
            \/ Contains(title_lower, S("weibo"))
    THEN S("Weibo")
    ELSE S("Social")

\* [/_\\]
PathSeparators == {47, 95, 92}

\* [a-zA-Z0-9_] and [a-zA-Z0-9_\.]
AsciiWord == UserNameChars \ {45}

DottedWord == AsciiWord \cup {46}

\* a literal as a pattern: one set of characters for each position
Lit(text) == [i \in 1..Len(text) |-> {text[i]}]

\* the characters of text from position p on are in the sets of the
\* pattern, one after the other
MatchesAt(text, p, sets) ==
    /\ p + Len(sets) - 1 <= Len(text)
    /\ \A i \in 1..Len(sets) : text[p + i - 1] \in sets[i]

\* [/_\\]status[/_\\]([0-9]+) needs this behind the user group
StatusTail == <<PathSeparators>> \o Lit(S("status")) \o <<PathSeparators, 48..57>>

\* lines 389-413: what stands in front of the user group (heads, one for
\* each alternative), how the group follows it (kind) and the class of
\* the group
DomainPattern(heads, kind, class, platform) ==
    [heads |-> heads, kind |-> kind, class |-> class, platform |-> platform]

XDomains == {Lit(S("twitter.com")), Lit(S("x.com"))}

patterns ==
    <<DomainPattern({d \o <<PathSeparators>> : d \in XDomains}, "status", AsciiWord, S("X")),
      DomainPattern(XDomains, "mention", AsciiWord, S("X")),
      DomainPattern({d \o <<PathSeparators>> : d \in XDomains}, "path", AsciiWord, S("X")),
      DomainPattern({Lit(S("instagram.com")) \o <<PathSeparators, {112}, PathSeparators>>}, "path", DottedWord, S("Instagram")),
      DomainPattern({Lit(S("instagram.com"))}, "mention", DottedWord, S("Instagram")),
      DomainPattern({Lit(S("instagram.com")) \o <<PathSeparators>>}, "path", DottedWord, S("Instagram")),
      DomainPattern({Lit(S("linkedin.com")) \o <<PathSeparators>> \o Lit(S("posts")) \o <<PathSeparators>>}, "path", UserNameChars, S("LinkedIn")),
      DomainPattern({Lit(S("linkedin.com"))}, "mention", UserNameChars, S("LinkedIn")),
      DomainPattern({Lit(S("tiktok.com")) \o <<PathSeparators, {64}>>}, "path", DottedWord, S("TikTok")),
      DomainPattern({Lit(S("youtube.com")) \o <<PathSeparators>> \o Lit(S("watch?v="))}, "path", UserNameChars, S("YouTube")),
      DomainPattern({Lit(S("youtu.be")) \o <<PathSeparators>>}, "path", UserNameChars, S("YouTube")),
      DomainPattern({Lit(S("reddit.com")) \o <<PathSeparators, {114}, PathSeparators>>}, "path", AsciiWord, S("Reddit"))>>

\* the user group of a match whose head ends in front of position from,
\* <<>> when the pattern does not match there.  "path": the group follows
\* at once; "status": the longest group with StatusTail behind it;
\* "mention": .*?@ skips to the first '@' of the line that a group follows
GroupBehind(text, from, pattern) ==
    IF pattern.kind = "status"
    THEN LET lengths == {k \in 1..RunLen(text, from, pattern.class, FALSE) :
                            MatchesAt(text, from + k, StatusTail)}
         IN IF lengths = {} THEN <<>>
            ELSE SubSeq(text, from, from + Max(lengths) - 1)
    ELSE IF pattern.kind = "mention"
    THEN LET line_end == Min({q \in from..Len(text) : text[q] = 10}
                             \cup {Len(text) + 1})
             ats == {q \in from..(line_end - 1) :
                        /\ text[q] = 64
                        /\ RunLen(text, q + 1, pattern.class, FALSE) > 0}
         IN IF ats = {} THEN <<>>
            ELSE SubSeq(text, Min(ats) + 1,
                        Min(ats) + RunLen(text, Min(ats) + 1, pattern.class, FALSE))
    ELSE SubSeq(text, from, from + RunLen(text, from, pattern.class, FALSE) - 1)

\* re.search(pattern, title_lower): the user group of the leftmost match,
\* <<>> when there is no match
GroupOfSearch(title_lower, pattern) ==
    LET hits == {h \in (1..Len(title_lower)) \X pattern.heads :
                    /\ MatchesAt(title_lower, h[1], h[2])
                    /\ GroupBehind(title_lower, h[1] + Len(h[2]), pattern) # <<>>}
        first == CHOOSE h \in hits : \A g \in hits : h[1] <= g[1]
    IN IF hits = {} THEN <<>>
       ELSE GroupBehind(title_lower, first[1] + Len(first[2]), pattern)

\* the patterns of lines 389-413 that match title_lower, by their index
DomainHits(title_lower) ==
    {k \in 1..Len(patterns) : GroupOfSearch(title_lower, patterns[k]) # <<>>}

\* lines 419-424
CleanUser(user) ==
    LET kept == SelectSeq(user, LAMBDA c : c \in UserNameChars) IN
    IF kept = <<>> \/ kept \in {S("com"), S("status"), S("watch"), S("posts")}
    THEN S("User") ELSE kept

\* lines 415-435 for the first pattern that matches
DomainInfo(title_lower, k) ==
    PlatformInfo(patterns[k].platform,
                 CleanUser(GroupOfSearch(title_lower, patterns[k])))

_extract_platform_info(title) ==
    LET title_lower == Lower(title) IN
    IF /\ Contains(title, Connective)
       /\ Contains(title_lower, S("x_")) \/ Contains(title_lower, S("twitter"))
       /\ XUserStarts(title) # {}
    THEN PlatformInfo(S("X"), XUser(title))
    ELSE IF /\ Contains(title, Connective)
            /\ Contains(title_lower, S("instagram"))
            /\ InstagramStarts(title_lower) # {}
    THEN PlatformInfo(S("Instagram"), InstagramUser(title_lower))
    ELSE IF DomainHits(title_lower) # {}
    THEN DomainInfo(title_lower, Min(DomainHits(title_lower)))
    ELSE IF \E keyword \in {Connective, <<24494, 21338>>, S("weibo"),
                            S("twitter"), S("instagram")} :
                Contains(title_lower, keyword)
    THEN IF ContextStarts(title) # {}
         THEN PlatformInfo(ContextPlatform(title_lower), ContextUser(title))
         ELSE IF MentionStarts(title) # {}
         THEN PlatformInfo(ContextPlatform(title_lower), MentionUser(title))
         ELSE IF UnderscoreStarts(title) # {}
         THEN PlatformInfo(ContextPlatform(title_lower), UnderscoreUser(title))
         ELSE NoPlatform
    ELSE NoPlatform

(***************************************************************************)
(* _extract_content_description, _clean_content_description                *)
(* (optimize.py 157-215)                                                   *)
(***************************************************************************)
\* text.lstrip(chars)
RECURSIVE LStrip(_, _)
LStrip(text, chars) ==
    IF text # <<>> /\ text[1] \in chars
    THEN LStrip(Tail(text), chars)
    ELSE text

\* text.strip(chars)
Strip(text, chars) == RStrip(LStrip(text, chars), chars)

\* re.sub('[set]+', ' ', text)
CollapseRuns(text, set) ==
    LET starts == SelectSeq([i \in 1..Len(text) |-> i],
                            LAMBDA i : \/ text[i] \notin set
                                       \/ i = 1
                                       \/ text[i - 1] \notin set)
    IN [j \in 1..Len(starts) |->
           IF text[starts[j]] \in set THEN 32 ELSE text[starts[j]]]

\* re.sub('[set]+', '', text)
RemoveChars(text, set) == SelectSeq(text, LAMBDA c : c \notin set)

\* re.sub(re.escape(lit) + tail + '?', '', text, flags=re.IGNORECASE) for a
\* literal lit and an optional trailing string tail
RECURSIVE RemoveLiteral(_, _, _)
RemoveLiteral(text, lit, tail) ==
    LET text_lower == Lower(text)
        lit_lower  == Lower(lit)
        hits == {p \in 1..Len(text) : HasAt(text_lower, lit_lower, p)}
    IN
    IF lit = <<>> \/ hits = {} THEN text
    ELSE LET p    == Min(hits)
             next == IF HasAt(text, tail, p + Len(lit))
                     THEN p + Len(lit) + Len(tail)
                     ELSE p + Len(lit)
         IN SubSeq(text, 1, p - 1)
            \o RemoveLiteral(SubSeq(text, next, Len(text)), lit, tail)

\* [_\-\s]
SeparatorChars == {95, 45} \cup WhiteSpace

\* lines 191-193: chinese_punct + ':"\'' in loop order, one strip per entry
StripOrder == <<65306, 34, 34, 34, 34, 58, 34, 39>>

RECURSIVE StripPunctuation(_, _)
StripPunctuation(content, k) ==
    IF k > Len(StripOrder) THEN content
    ELSE StripPunctuation(Strip(content, {StripOrder[k], 32, 9, 45, 95}), k + 1)

\* U+5185 U+5BB9, the placeholder of an empty content description
EmptyContent == <<20869, 23481>>

\* U+9875 U+9762 U+5185 U+5BB9, the placeholder of an empty page description
EmptyPage == <<39029, 38754, 20869, 23481>>

\* content if content else placeholder
OrPlaceholder(content, placeholder) ==
    IF content # <<>> THEN content ELSE placeholder

\* Patterns 2 and 4-8 of patterns_to_remove need '.com', '/' or '[URL]' and
\* leave a title of the alphabet unchanged; '@' + user is removed as a
\* literal (user tokens of the alphabet hold no regex operator).
_extract_content_description(title, platform_info) ==
    LET removed1 == RemoveLiteral(title,
                        platform_info.platform \o S("_") \o Connective
                            \o S("_") \o platform_info.user,
                        S("_"))
        removed3 == RemoveLiteral(removed1, S("@") \o platform_info.user, <<>>)
        collapsed == Strip(CollapseRuns(removed3, SeparatorChars), WhiteSpace)
    IN OrPlaceholder(Strip(StripPunctuation(collapsed, 1), WhiteSpace),
                     EmptyContent)

\* the two URL substitutions of lines 210-211 leave a title of the alphabet
\* unchanged
_clean_content_description(title) ==
    OrPlaceholder(Strip(CollapseRuns(RemoveChars(title, {40, 41, 91, 93}),
                                     SeparatorChars),
                        WhiteSpace),
                  EmptyPage)

(***************************************************************************)
(* create_enhanced_content_filename (optimize.py 96-154)                   *)
(***************************************************************************)
\* lines 135-149: the safety check on the name built at line 135
EnhancedChecked(base_format, skeleton, content_desc, available_for_content_bytes, enhanced, max_bytes) ==
    LET final_bytes == ByteLen(enhanced \o S(".html"))
        overage == final_bytes - max_bytes
        emergency_limit == available_for_content_bytes - overage - 3
    IN
    IF final_bytes > max_bytes
    THEN IF emergency_limit > 10
         THEN [stem |-> base_format
                        \o _byte_aware_semantic_truncate(content_desc,
                                                         emergency_limit)
                        \o Ellipsis,
               exit |-> "emergency"]
         ELSE [stem |-> skeleton, exit |-> "emergency_skeleton"]
    ELSE [stem |-> enhanced, exit |-> "content"]

\* lines 132-152 for the prefix of line 122 and the budget of line 129
EnhancedFromPrefix(base_format, skeleton, content_desc, available_for_content_bytes, max_bytes) ==
    IF available_for_content_bytes > 20
    THEN EnhancedChecked(base_format, skeleton, content_desc,
             available_for_content_bytes,
             base_format
                 \o _byte_aware_semantic_truncate(content_desc,
                                                  available_for_content_bytes),
             max_bytes)
    ELSE [stem |-> skeleton, exit |-> "skeleton"]

\* mutant of EnhancedFromParts: the user token is cut to make room for the
\* content
EnhancedFromParts_CutsUser(platform, user, content_desc, max_bytes) ==
    LET base_format == platform \o S("_") \o Connective \o S("_")
                       \o _truncate_by_bytes(user, 3) \o S("_")
    IN EnhancedFromPrefix(base_format,
                          platform \o S("_") \o Connective \o S("_") \o user,
                          content_desc,
                          max_bytes - extension_bytes - ByteLen(base_format),
                          max_bytes)

\* lines 122-152 for the platform, user and content of lines 109-119
EnhancedFromParts(platform, user, content_desc, max_bytes) ==
    LET base_format == platform \o S("_") \o Connective \o S("_") \o user
                       \o S("_")
        available_bytes == max_bytes - extension_bytes
        base_bytes == ByteLen(base_format)
    IN EnhancedFromPrefix(base_format,
                          platform \o S("_") \o Connective \o S("_") \o user,
                          content_desc, available_bytes - base_bytes, max_bytes)

\* mutant of EnhancedFromInfo: without a platform the user is always
\* 'Content'
EnhancedFromInfo_NoMention(title, platform_info, max_bytes) ==
    EnhancedFromParts(
        IF platform_info.found THEN platform_info.platform ELSE S("Web"),
        IF platform_info.found THEN platform_info.user ELSE S("Content"),
        IF platform_info.found
        THEN _extract_content_description(title, platform_info)
        ELSE _clean_content_description(title),
        max_bytes)

\* lines 109-152 for the platform_info of line 107
EnhancedFromInfo(title, platform_info, max_bytes) ==
    EnhancedFromParts(
        IF platform_info.found THEN platform_info.platform ELSE S("Web"),
        IF platform_info.found THEN platform_info.user
        ELSE IF MentionStarts(title) # {} THEN MentionUser(title)
        ELSE S("Content"),
        IF platform_info.found
        THEN _extract_content_description(title, platform_info)
        ELSE _clean_content_description(title),
        max_bytes)

\* Returns the stem and the return path that produced it.
EnhancedContentFilename(title, max_bytes) ==
    EnhancedFromInfo(title, _extract_platform_info(title), max_bytes)

create_enhanced_content_filename(title, max_bytes) ==
    EnhancedContentFilename(title, max_bytes).stem

(***************************************************************************)
(* create_standardized_filename (optimize.py 33-93)                        *)
(***************************************************************************)
\* the bytes urllib.parse.quote never escapes: letters, digits and _ . - ~
Unreserved == (97..122) \cup (65..90) \cup (48..57) \cup {95, 46, 45, 126}

HexDigit(d) == IF d < 10 THEN 48 + d ELSE 55 + d

RECURSIVE QuoteBytes(_)
QuoteBytes(bs) ==
    IF bs = <<>> THEN <<>>
    ELSE (IF Head(bs) \in Unreserved THEN <<Head(bs)>>
          ELSE <<37, HexDigit(Head(bs) \div 16), HexDigit(Head(bs) % 16)>>)
         \o QuoteBytes(Tail(bs))

\* quote(url, safe='')
quote(url) == QuoteBytes(Encode(url))

\* lines 70-91 for the parts of the name of line 62
StandardizedShrunk(prefix, user, base_format, encoded_url, encoded_url_bytes, target_bytes) ==
    LET available_for_url_bytes == target_bytes - ByteLen(base_format)
        sample_url_bytes == IF encoded_url_bytes < 30
                            THEN encoded_url_bytes ELSE 30
        available_for_user_bytes ==
            target_bytes - ByteLen(prefix \o S("_[URL]_")) - sample_url_bytes - 3
    IN
    IF ByteLen(base_format \o encoded_url) <= target_bytes
    THEN [stem |-> base_format \o encoded_url, exit |-> "full"]
    ELSE IF available_for_url_bytes > 15
    THEN [stem |-> base_format
                   \o _truncate_by_bytes(encoded_url, available_for_url_bytes - 3)
                   \o S("..."),
          exit |-> "url"]
    ELSE IF available_for_user_bytes > 6
    THEN [stem |-> prefix \o _truncate_by_bytes(user, available_for_user_bytes)
                   \o S("_[URL]_")
                   \o _truncate_by_bytes(encoded_url, sample_url_bytes)
                   \o S("..."),
          exit |-> "user"]
    ELSE [stem |-> prefix \o S("User_[URL]_")
                   \o _truncate_by_bytes(encoded_url, 20) \o S("..."),
          exit |-> "minimal"]

\* lines 58-91 for the platform and user of lines 47-55
StandardizedFromParts(platform, user, encoded_url, max_bytes) ==
    StandardizedShrunk(platform \o S("_") \o Connective \o S("_"), user,
                       platform \o S("_") \o Connective \o S("_") \o user
                           \o S("_[URL]_"),
                       encoded_url, ByteLen(encoded_url),
                       max_bytes - extension_bytes)

\* lines 47-91 for the platform_info of line 45
StandardizedFromInfo(platform_info, url, max_bytes) ==
    StandardizedFromParts(
        IF platform_info.found THEN platform_info.platform ELSE S("Web"),
        IF platform_info.found THEN platform_info.user ELSE S("Content"),
        quote(url), max_bytes)

\* Returns the stem and the shrink strategy that produced it.
StandardizedFilename(title, url, max_bytes) ==
    StandardizedFromInfo(_extract_platform_info(title), url, max_bytes)

create_standardized_filename(title, url, max_bytes) ==
    StandardizedFilename(title, url, max_bytes).stem

(***************************************************************************)
(* _ensure_unique_filename (optimize.py 801-869)                           *)
(***************************************************************************)
\* f"{i:03d}"
Pad3(i) == <<48 + (i \div 100), 48 + ((i \div 10) % 10), 48 + (i % 10)>>

\* f"{n:02d}" for n < 100
Pad2(n) == <<48 + (n \div 10), 48 + (n % 10)>>

\* datetime.now().strftime('%H%M%S'); now is the wall clock in seconds since
\* midnight
StrfTime(now) ==
    Pad2(now \div 3600) \o Pad2((now \div 60) % 60) \o Pad2(now % 60)

\* "_001"
suffix_bytes == 4

\* range(1, 1000) visits 1..LastNumber
LastNumber == 999

\* f"{base_filename}_{i:03d}"
Numbered(base_filename, i) == base_filename \o <<95>> \o Pad3(i)

\* lines 829-833: the stem the numbered variants are built on
BaseFilename(filename, max_bytes) ==
    LET available_bytes == max_bytes - extension_bytes - suffix_bytes IN
    IF ByteLen(filename) > available_bytes
    THEN RStrip(_truncate_by_bytes(filename, available_bytes), TrimChars)
    ELSE filename

\* mutant of NumberStep: returns the first variant that fits, registered or
\* not
NumberStep_NoRegistryCheck(i, st, existing_lower, max_bytes) ==
    LET candidate == Numbered(st.base, i) IN
    IF ByteLen(candidate) + extension_bytes <= max_bytes
    THEN [done |-> TRUE, stem |-> candidate, exit |-> "numbered",
          base |-> st.base]
    ELSE st

\* one pass through the body of the for loop, lines 837-854; st carries
\* base_filename and, once a return statement ran, the returned stem
NumberStep(i, st, existing_lower, max_bytes) ==
    LET available_bytes == max_bytes - extension_bytes - suffix_bytes
        candidate       == Numbered(st.base, i)
        candidate_bytes == ByteLen(candidate) + extension_bytes
    IN
    IF candidate_bytes <= max_bytes /\ Lower(candidate) \notin existing_lower
    THEN [done |-> TRUE, stem |-> candidate, exit |-> "numbered",
          base |-> st.base]
    ELSE IF candidate_bytes > max_bytes
    THEN LET overage       == candidate_bytes - max_bytes
             new_available == available_bytes - overage
         IN
         IF new_available >= 10
         THEN LET base2 == RStrip(_truncate_by_bytes(st.base, new_available),
                                  TrimChars)
                  cand2 == Numbered(base2, i)
              IN
              IF Lower(cand2) \notin existing_lower
              THEN [done |-> TRUE, stem |-> cand2, exit |-> "retruncated",
                    base |-> base2]
              ELSE [st EXCEPT !.base = base2]
         ELSE st
    ELSE st

\* the for loop over i = lo..hi, left at the first return
RECURSIVE NumberLoop(_, _, _, _, _)

\* mutant of NumberLoop: range(1, 999), the last number is never tried
RECURSIVE NumberLoop_StopsEarly(_, _, _, _, _)
NumberLoop_StopsEarly(lo, hi, st, existing_lower, max_bytes) ==
    IF st.done THEN st
    ELSE IF lo = hi
    THEN (IF lo = LastNumber THEN st
          ELSE NumberStep(lo, st, existing_lower, max_bytes))
    ELSE LET mid == (lo + hi) \div 2 IN
         NumberLoop_StopsEarly(mid + 1, hi,
             NumberLoop_StopsEarly(lo, mid, st, existing_lower, max_bytes),
             existing_lower, max_bytes)

NumberLoop(lo, hi, st, existing_lower, max_bytes) ==
    IF st.done THEN st
    ELSE IF lo = hi THEN NumberStep(lo, st, existing_lower, max_bytes)
    ELSE LET mid == (lo + hi) \div 2 IN
         NumberLoop(mid + 1, hi,
                    NumberLoop(lo, mid, st, existing_lower, max_bytes),
                    existing_lower, max_bytes)

\* the default existing_names = None: a value that is no set of strings
None == {<<-1>>}

\* lines 811-854: the return statements ahead of the timestamp fallback;
\* exit "loop" when the for loop ran out without returning.  existing_lower
\* is the set built at line 815.
NumberedChoice(filename, existing_names, max_bytes) ==
    IF existing_names = None
    THEN [done |-> TRUE, stem |-> filename, exit |-> "none",
          existing_lower |-> {}]
    ELSE
    LET existing_lower == {Lower(name) : name \in existing_names} IN
    IF Lower(filename) \notin existing_lower
    THEN [done |-> TRUE, stem |-> filename, exit |-> "asis",
          existing_lower |-> existing_lower]
    ELSE
    LET st0 == [done |-> FALSE, stem |-> <<>>, exit |-> "loop",
                base |-> BaseFilename(filename, max_bytes)]
        st  == NumberLoop(1, LastNumber, st0, existing_lower, max_bytes)
    IN
    [done |-> st.done, stem |-> st.stem, exit |-> st.exit,
     existing_lower |-> existing_lower]

\* lines 856-869: the timestamp fallback behind the loop
TimestampFallback(filename, max_bytes, now) ==
    LET timestamp        == StrfTime(now)
        timestamp_suffix == <<95>> \o timestamp
        timestamp_bytes  == ByteLen(timestamp_suffix)
        final_available  == max_bytes - extension_bytes - timestamp_bytes
    IN
    IF final_available >= 5
    THEN [stem |-> _truncate_by_bytes(filename, final_available)
                   \o <<95>> \o timestamp,
          exit |-> "timestamp"]
    ELSE [stem |-> S("file_") \o timestamp, exit |-> "file"]

\* the result of the call whose statements ahead of the fallback produced
\* choice
FinishChoice(choice, filename, max_bytes, now) ==
    IF choice.done THEN [stem |-> choice.stem, exit |-> choice.exit]
    ELSE TimestampFallback(filename, max_bytes, now)

\* Returns the stem and the return statement that produced it.
_ensure_unique_filename(filename, existing_names, max_bytes, now) ==
    FinishChoice(NumberedChoice(filename, existing_names, max_bytes),
                 filename, max_bytes, now)

(***************************************************************************)
(* The batch loop of generate_rename_operations (optimize.py 963-1002)     *)
(* and of test_create_conflict_scenario: resolve a stem against the        *)
(* registry, then add the lower-cased result to the registry.              *)
(***************************************************************************)
\* number of files of a batch
MaxBatch == 2

\* byte budgets of a call: the documented minimum and the budgets next to
\* it, a budget that cuts LongStem, and the 150 bytes of line 988
Budgets == {15, 16, 17, 24, 150}

\* wall clock readings (seconds since midnight) a call may observe
Clock == {43200, 43201}

\* U+77ED, the one-character stem of test_edge_cases
ShortStem == <<30701>>

\* "X_<connective>_<e-acute><U+77ED>_<U+1F600>x": 1-, 2-, 3- and 4-byte
\* code points, 20 bytes
LongStem == S("X_") \o Connective \o S("_") \o <<233, 30701>> \o S("_")
            \o <<128512>> \o S("x")

\* stems the assembler hands to the resolver
Stems == {S("test"), S("Test"), ShortStem, LongStem}

\* a directory that already holds stem and its variants _001 .. _k
Dense(stem, base, k) ==
    {Lower(stem)} \cup {Lower(Numbered(base, i)) : i \in 1..k}

\* directory listings the batch may start from (test_edge_cases 165-179
\* pre-populates the registry the same way)
Directories ==
    { {},
      Dense(S("test"), S("test"), 2),
      Dense(S("test"), S("test"), LastNumber - 1),
      Dense(S("test"), S("test"), LastNumber),
      Dense(LongStem, BaseFilename(LongStem, 17), LastNumber) }

NoCall == [fn |-> "none"]

NoInput == [fn |-> "none"]

Init ==
    /\ existing_stems \in Directories
    /\ used_stems = {}
    /\ issued = <<>>
    /\ byte_budget \in Budgets
    /\ input = NoInput
    /\ last = NoCall

\* mutant of Resolve: the issued stem is not added to used_stems
Resolve_NoInsert(base_stem) ==
    /\ Len(issued) < MaxBatch
    /\ \E now \in Clock :
       \E r \in {_ensure_unique_filename(base_stem,
                                         used_stems \cup existing_stems,
                                         byte_budget, now)} :
          /\ issued' = Append(issued, r.stem)
          /\ last' = [fn |-> "_ensure_unique_filename",
                      filename |-> base_stem,
                      existing_lower |->
                          {Lower(name) : name \in used_stems \cup existing_stems},
                      max_bytes |-> byte_budget,
                      result |-> r.stem, exit |-> r.exit]
    /\ UNCHANGED <<existing_stems, used_stems, byte_budget, input>>

\* one iteration of the batch loop, lines 982-1002; the wall clock is read
\* by the call only once its for loop ran out (line 857)
Resolve(base_stem) ==
    /\ Len(issued) < MaxBatch
    /\ \E all_existing_stems \in {used_stems \cup existing_stems} :
       \E choice \in {NumberedChoice(base_stem, all_existing_stems,
                                     byte_budget)} :
       \E now \in (IF choice.done THEN {CHOOSE t \in Clock : TRUE}
                    ELSE Clock) :
       \E r \in {FinishChoice(choice, base_stem, byte_budget, now)} :
          /\ used_stems' = used_stems \cup {Lower(r.stem)}
          /\ issued' = Append(issued, r.stem)
          /\ last' = [fn |-> "_ensure_unique_filename",
                      filename |-> base_stem,
                      existing_lower |-> choice.existing_lower,
                      max_bytes |-> byte_budget,
                      result |-> r.stem, exit |-> r.exit]
    /\ UNCHANGED <<existing_stems, byte_budget, input>>

Next == \E base_stem \in Stems : Resolve(base_stem)

Spec == Init /\ [][Next]_vars

(***************************************************************************)
(* Claims about the uniqueness resolver, checked under Spec                *)
(***************************************************************************)
ResolverCalled == last.fn = "_ensure_unique_filename"

\* the registry of the latest call as the resolver compares against it
LastExistingLower == last.existing_lower

\* the latest call had to disambiguate: its candidate was registered
LastConflicted == ResolverCalled /\ Lower(last.filename) \in LastExistingLower

\* the numbers whose variant of the (cut) stem is free in a registry
FreeNumbers(filename, existing_lower, budget) ==
    LET base == Lower(BaseFilename(filename, budget)) IN
    {i \in 1..LastNumber : Numbered(base, i) \notin existing_lower}

\* text is some prefix of whole followed by '_' and a six-digit clock reading
IsTimestamped(text, whole) ==
    \E n \in 0..Len(whole), now \in Clock :
        text = SubSeq(whole, 1, n) \o <<95>> \o StrfTime(now)

\* C1: the stems issued one after another against the shared registry are
\* pairwise distinct case-insensitively, also when the 999 numbered variants
\* of a stem are exhausted.
C1_IssuedPairwiseDistinct ==
    \A i, j \in 1..Len(issued) :
        i # j => Lower(issued[i]) # Lower(issued[j])

\* C2: the stem returned by _ensure_unique_filename is never, compared
\* case-insensitively, a member of the registry it was resolved against, on
\* every exit of the strategy chain.
C2_ResultNotInRegistry ==
    ResolverCalled => Lower(last.result) \notin LastExistingLower

\* C3: for byte budgets of 15 and more, a registered candidate with a free
\* numbered variant gets base + '_NNN', NNN three digits and the smallest
\* number in 001..999 whose variant is free; base is the candidate
\* itself when candidate + suffix + extension fit the budget.  With only the
\* candidate registered the result is candidate_001, with _001 and _002
\* registered as well it is candidate_003.
C3_SmallestFreeNumber ==
    LastConflicted =>
        \A existing_lower \in {LastExistingLower} :
        \A free \in {FreeNumbers(last.filename, existing_lower,
                                 last.max_bytes)} :
        \A base \in {BaseFilename(last.filename, last.max_bytes)} :
        LET fits == ByteLen(last.filename) + suffix_bytes + extension_bytes
                        <= last.max_bytes
        IN
        free # {} =>
            /\ \E n \in free :
                  /\ \A k \in 1..(n - 1) : k \notin free
                  /\ last.result = base \o <<95>> \o Pad3(n)
            /\ Len(last.result) = Len(base) + 4
            /\ fits => base = last.filename
            /\ (fits /\ existing_lower = {Lower(last.filename)})
                   => last.result = last.filename \o S("_001")
            /\ (fits /\ existing_lower =
                           {Lower(last.filename),
                            Lower(last.filename \o S("_001")),
                            Lower(last.filename \o S("_002"))})
                   => last.result = last.filename \o S("_003")

C3_Witness ==
    /\ LastConflicted
    /\ last.filename = S("Test")
    /\ last.result = S("Test_003")

\* C4 as stated: with the candidate and all 999 variants registered the
\* result is the stem followed by a timestamp suffix, and the timestamp
\* fallback is reached only then.
C4_Original ==
    ResolverCalled =>
        \A dense \in {LastConflicted /\
                      FreeNumbers(last.filename, LastExistingLower,
                                  last.max_bytes) = {}} :
        /\ dense => IsTimestamped(last.result, last.filename)
        /\ last.exit \in {"timestamp", "file"} => dense

\* C4 amended: with the candidate and all 999 variants registered the call
\* returns, for max_bytes >= 17, the stem cut to max_bytes - 12 bytes
\* followed by '_HHMMSS' and, for max_bytes of 15 or 16, the fixed stem
\* 'file_HHMMSS'; these two exits are reached only in that case, and with
\* _001 .. _998 registered the result is the _999 variant.
C4_TimestampFallback ==
    ResolverCalled =>
        \A free \in {IF LastConflicted
                     THEN FreeNumbers(last.filename, LastExistingLower,
                                      last.max_bytes)
                     ELSE 1..LastNumber} :
        /\ free = {} =>
              \E now \in Clock :
                 last.result =
                    IF last.max_bytes >= 17
                    THEN _truncate_by_bytes(last.filename, last.max_bytes - 12)
                         \o <<95>> \o StrfTime(now)
                    ELSE S("file_") \o StrfTime(now)
        /\ last.exit \in {"timestamp", "file"} => free = {}
        /\ (LastConflicted /\ free = {LastNumber})
               => last.result =
                     BaseFilename(last.filename, last.max_bytes) \o S("_999")

C4_Witness ==
    /\ LastConflicted
    /\ last.exit = "file"
    /\ FreeNumbers(last.filename, LastExistingLower, last.max_bytes) = {}

\* C5: whenever the resolver has to disambiguate, result + '.html' is at
\* most max_bytes bytes, for every max_bytes >= 15, on the numbered path and
\* on both timestamp fallbacks.
C5_DisambiguatedFitsBudget ==
    (LastConflicted /\ last.max_bytes >= 15) =>
        ByteLen(last.result \o S(".html")) <= last.max_bytes

(***************************************************************************)
(* The truncators as pure functions: SpecTruncate draws a text and a byte  *)
(* budget and applies _truncate_by_bytes or _byte_aware_semantic_truncate. *)
(***************************************************************************)
\* longest run of one character in a drawn text
MaxRun == 12

RunLengths == {0, 1, 5, MaxRun}

\* 'a', e-acute (2 bytes), U+77ED (3 bytes), U+1F600 (4 bytes)
HeadChars == {97, 233, 30701, 128512}

TailChars == {97, 30701}

\* '.', U+3002, ',', ' ', or no separator at all
Separators == {<<46>>, <<12290>>, <<44>>, <<32>>, <<>>}

\* run of one character, separator, run of another character
Texts ==
    {Rep(c1, n1) \o sep \o Rep(c2, n2) :
        c1 \in HeadChars, n1 \in RunLengths, sep \in Separators,
        c2 \in TailChars, n2 \in RunLengths \ {1}}

TruncateBudgets == {-1, 0, 1, 2, 3, 4, 5, 14, 15, 16, 24, 30}

InitTruncate ==
    /\ existing_stems = {}
    /\ used_stems = {}
    /\ issued = <<>>
    /\ byte_budget = 0
    /\ input \in [text : Texts, max_bytes : TruncateBudgets]
    /\ last = NoCall

CallTruncateByBytes ==
    /\ last' = [fn |-> "_truncate_by_bytes", text |-> input.text,
                max_bytes |-> input.max_bytes,
                result |-> _truncate_by_bytes(input.text, input.max_bytes)]
    /\ UNCHANGED <<existing_stems, used_stems, issued, byte_budget, input>>

CallSemanticTruncate ==
    /\ \E r \in {SemanticTruncate(input.text, input.max_bytes)} :
          last' = [fn |-> "_byte_aware_semantic_truncate",
                   text |-> input.text, max_bytes |-> input.max_bytes,
                   result |-> r.text, exit |-> r.exit]
    /\ UNCHANGED <<existing_stems, used_stems, issued, byte_budget, input>>

NextTruncate == CallTruncateByBytes \/ CallSemanticTruncate

SpecTruncate == InitTruncate /\ [][NextTruncate]_vars

SemanticTruncateCalled == last.fn = "_byte_aware_semantic_truncate"

TruncateByBytesCalled == last.fn = "_truncate_by_bytes"

\* C6: the result of _byte_aware_semantic_truncate has at most max_bytes
\* UTF-8 bytes for every text and every max_bytes, also for max_bytes below
\* the three bytes of the ellipsis.
C6_TruncateWithinBudget ==
    SemanticTruncateCalled => ByteLen(last.result) <= last.max_bytes

\* C7: truncation is the identity on texts that already fit, hence
\* truncating a truncated result again with the same budget changes nothing.
C7_IdentityWhenFits ==
    SemanticTruncateCalled =>
        /\ ByteLen(last.text) <= last.max_bytes => last.result = last.text
        /\ _byte_aware_semantic_truncate(last.result, last.max_bytes)
               = last.result

C7_Witness ==
    /\ SemanticTruncateCalled
    /\ last.exit = "boundary"
    /\ last.result # last.text
    /\ _byte_aware_semantic_truncate(last.result, last.max_bytes)
           = last.result

\* C8: _truncate_by_bytes(text, n) is the longest prefix of text made of
\* whole code points whose encoding has at most n bytes, the empty string
\* for n <= 0; its encoding decodes back to it.
C8_LongestWholePrefix ==
    TruncateByBytesCalled =>
        /\ last.result = SubSeq(last.text, 1, Len(last.result))
        /\ Len(last.result) <= Len(last.text)
        /\ last.max_bytes <= 0 => last.result = <<>>
        /\ last.max_bytes > 0 =>
              /\ ByteLen(last.result) <= last.max_bytes
              /\ Len(last.result) < Len(last.text) =>
                    ByteLen(SubSeq(last.text, 1, Len(last.result) + 1))
                        > last.max_bytes
        /\ Decode(Encode(last.result)) = [ok |-> TRUE, text |-> last.result]

C8_Witness ==
    /\ TruncateByBytesCalled
    /\ last.result # <<>>
    /\ ByteLen(last.result) < last.max_bytes
    /\ last.result # last.text
    /\ \E i \in 1..Len(last.text) : last.text[i] = 128512
    /\ \E i \in 1..Len(last.text) : last.text[i] = 30701

(***************************************************************************)
(* The assemblers as pure functions: SpecAssemble draws a title, a URL and *)
(* a byte budget and applies create_enhanced_content_filename or           *)
(* create_standardized_filename.                                           *)
(***************************************************************************)
\* longest user token of a drawn title, in characters
MaxUser == 8

\* longest content run of a drawn title, in characters
MaxContent == 16

\* what a drawn title starts with: 'X_<connective>_', 'twitter_<connective>_',
\* '<connective>_', '@', or nothing
TitleHeads ==
    {S("X_") \o Connective \o S("_"), S("twitter_") \o Connective \o S("_"),
     Connective \o S("_"), S("@"), <<>>}

\* user tokens: runs of 'u' or of U+5B9D
TitleUsers == {Rep(c, n) : c \in {117, 23453}, n \in {1, 2, MaxUser}}

\* '_', ' ' or U+FF1A between the user token and the content
TitleSeparators == {<<95>>, <<32>>, <<65306>>}

\* content: nothing, a short word, or a run with a sentence end inside
TitleContents ==
    {<<>>, S("hello")}
    \cup {Rep(c, n) \o S(". ") \o Rep(c, 4) : c \in {97, 30701},
                                             n \in {5, MaxContent}}

Titles ==
    {<<>>}
    \cup {head \o user \o sep \o content :
             head \in TitleHeads, user \in TitleUsers,
             sep \in TitleSeparators, content \in TitleContents}

\* 'https://x.com/u/status/12345678' and 'http://a.b/<U+77ED>'
Urls == {S("https://x.com/u/status/12345678"), S("http://a.b/") \o <<30701>>}

AssembleBudgets == {15, 23, 40, 48, 60, 75}

InitAssemble ==
    /\ existing_stems = {}
    /\ used_stems = {}
    /\ issued = <<>>
    /\ byte_budget = 0
    /\ input \in [title : Titles, url : Urls, max_bytes : AssembleBudgets]
    /\ last = NoCall

CallEnhancedContent ==
    /\ \E r \in {EnhancedContentFilename(input.title, input.max_bytes)} :
          last' = [fn |-> "create_enhanced_content_filename",
                   title |-> input.title, max_bytes |-> input.max_bytes,
                   result |-> r.stem, exit |-> r.exit]
    /\ UNCHANGED <<existing_stems, used_stems, issued, byte_budget, input>>

CallStandardized ==
    /\ \E r \in {StandardizedFilename(input.title, input.url,
                                      input.max_bytes)} :
          last' = [fn |-> "create_standardized_filename",
                   title |-> input.title, url |-> input.url,
                   max_bytes |-> input.max_bytes,
                   result |-> r.stem, exit |-> r.exit]
    /\ UNCHANGED <<existing_stems, used_stems, issued, byte_budget, input>>

NextAssemble == CallEnhancedContent \/ CallStandardized

SpecAssemble == InitAssemble /\ [][NextAssemble]_vars

\* every drawn title is one the extractor is modelled for
TitlesInAlphabet == \A title \in Titles : TitleInAlphabet(title)

EnhancedContentCalled == last.fn = "create_enhanced_content_filename"

StandardizedCalled == last.fn = "create_standardized_filename"

\* C9: for every title and every max_bytes >= 15 the stem of
\* create_enhanced_content_filename plus '.html' has at most max_bytes
\* bytes, also when the result collapses to platform_<connective>_user.
C9_EnhancedFitsBudget ==
    (EnhancedContentCalled /\ last.max_bytes >= 15) =>
        ByteLen(last.result \o S(".html")) <= last.max_bytes

\* C10: for every title, url and every max_bytes >= 15 the stem of
\* create_standardized_filename plus '.html' has at most max_bytes bytes, on
\* each of the three shrink strategies.
C10_StandardizedFitsBudget ==
    (StandardizedCalled /\ last.max_bytes >= 15) =>
        ByteLen(last.result \o S(".html")) <= last.max_bytes

(***************************************************************************)
(* Claims about the assemblers, checked under SpecAssemble                 *)
(***************************************************************************)
\* text[start:] begins with lit
StartsWith(text, lit) == HasAt(text, lit, 1)

url_indicators ==
    {S("[URL]"), S("https://"), S("http://"), S("twitter.com"), S("x.com"),
     S("instagram.com"), S("youtube.com"), S("linkedin.com"), S("reddit.com"),
     S("tiktok.com"), S("%3A%2F%2F"), S("/status/"), S("/p/"),
     S("/watch?v="), S("/posts/")}

_has_url_indicators(filename) ==
    LET filename_lower == Lower(filename) IN
    \E indicator \in url_indicators : Contains(filename_lower, indicator)

\* mutant of _generate_enhanced_filename: the indicators are looked for in
\* the title joined with the URL
generate_enhanced_filename_MockWithUrl(title, url) ==
    IF _has_url_indicators(title \o S(" ") \o url)
    THEN [stem |-> create_standardized_filename(title, url, 150),
          branch |-> "standardized"]
    ELSE [stem |-> create_enhanced_content_filename(title, 150),
          branch |-> "enhanced"]

\* lines 258-267; neither assembler raises on the titles drawn here, so
\* the except clause of lines 268-271 is not entered
_generate_enhanced_filename(title, url) ==
    IF _has_url_indicators(title)
    THEN [stem |-> create_standardized_filename(title, url, 150),
          branch |-> "standardized"]
    ELSE [stem |-> create_enhanced_content_filename(title, 150),
          branch |-> "enhanced"]

\* what a drawn title ends with: nothing, or a text with an indicator
TitleTails == {<<>>, S(" https://t.co/a"), S(" /status/1")}

\* the titles of SpecAssemble, each with every tail
DockerTitles ==
    {title \o tail : title \in Titles, tail \in TitleTails}

InitDocker ==
    /\ existing_stems = {}
    /\ used_stems = {}
    /\ issued = <<>>
    /\ byte_budget = 0
    /\ input \in [title : DockerTitles, url : Urls]
    /\ last = NoCall

CallGenerateEnhanced ==
    /\ \E r \in {_generate_enhanced_filename(input.title, input.url)} :
          last' = [fn |-> "_generate_enhanced_filename",
                   title |-> input.title, url |-> input.url,
                   result |-> r.stem, branch |-> r.branch]
    /\ UNCHANGED <<existing_stems, used_stems, issued, byte_budget, input>>

NextDocker == CallGenerateEnhanced

SpecDocker == InitDocker /\ [][NextDocker]_vars

GenerateEnhancedCalled == last.fn = "_generate_enhanced_filename"

\* the title holds one of the documented indicators, in any letter case
CarriesUrlIndicator(title) ==
    \E indicator \in url_indicators :
        Contains(Lower(title), Lower(indicator))

unsafe_chars == {60, 62, 58, 34, 47, 92, 124, 63, 42}

\* re.sub(r'[<>:"/\\|?*]', '_', filename)
SubUnsafe(filename) ==
    [i \in 1..Len(filename) |->
        IF filename[i] \in unsafe_chars THEN 95 ELSE filename[i]]

\* re.sub(r'\s+', '_', safe_name): every run of white space becomes one '_'
SubWhiteSpace(safe_name) ==
    LET kept == SelectSeq([i \in 1..Len(safe_name) |-> i],
                          LAMBDA i : ~(/\ safe_name[i] \in WhiteSpace
                                       /\ i > 1
                                       /\ safe_name[i - 1] \in WhiteSpace))
    IN [k \in 1..Len(kept) |->
           IF safe_name[kept[k]] \in WhiteSpace THEN 95
           ELSE safe_name[kept[k]]]

\* f"{n:04d}" for n < 10000
Pad4(n) ==
    <<48 + (n \div 1000), 48 + ((n \div 100) % 10), 48 + ((n \div 10) % 10),
      48 + (n % 10)>>

\* sum of the code points of text
RECURSIVE CodePointSum(_, _, _)
CodePointSum(text, lo, hi) ==
    IF lo > hi THEN 0
    ELSE IF lo = hi THEN text[lo]
    ELSE CodePointSum(text, lo, (lo + hi) \div 2)
         + CodePointSum(text, (lo + hi) \div 2 + 1, hi)

\* abs(hash(filename)) % 10000 of lines 501 and 507.  hash() of a str is
\* keyed by a seed the interpreter draws when the process starts
\* (PYTHONHASHSEED unset): within one process the value is a function of the
\* text, between two processes it is not.  The model keeps that dependence
\* and nothing else of the hash function.
StrHash(filename, hash_seed) ==
    (hash_seed * 7919 + CodePointSum(filename, 1, Len(filename))) % 10000

\* lines 491-509; exit names the return statement taken
SafeFilename(filename, max_length, hash_seed) ==
    LET safe_name   == SubWhiteSpace(SubUnsafe(filename))
        hash_suffix == <<95>> \o Pad4(StrHash(filename, hash_seed))
        max_base_length == max_length - Len(hash_suffix)
    IN
    IF filename = <<>> THEN [name |-> S("untitled"), exit |-> "untitled"]
    ELSE IF Len(safe_name) <= max_length
    THEN [name |-> safe_name, exit |-> "as_is"]
    ELSE IF max_base_length > 0
    THEN [name |-> Prefix(safe_name, max_base_length) \o hash_suffix,
          exit |-> "hash"]
    ELSE [name |-> S("file_") \o Pad4(StrHash(filename, hash_seed)),
          exit |-> "file"]

safe_filename(filename, max_length, hash_seed) ==
    SafeFilename(filename, max_length, hash_seed).name

\* the default of the max_length parameter
default_max_length == 255

(***************************************************************************)
(* generate_optimized_filename (optimize.py 626-672) with                  *)
(* extract_title_from_filename (469-560) and _extract_url_from_filename    *)
(* (675-776).  The file names of the model are either a legacy name        *)
(* '(title) [URL] percent-encoded-url' or a bare title without             *)
(* 'http', '.com', '.org', '.net', '.edu', '.gov', '.io', '.co' and        *)
(* 'youtu.be'; NameInAlphabet states the restriction.  On such names the   *)
(* domain patterns of lines 488-505, 534-539, 547-557 and 703-774 match    *)
(* nothing.                                                                *)
(***************************************************************************)
\* str.replace(old, ''): every occurrence, left to right, case-sensitive
RECURSIVE RemoveExact(_, _)
RemoveExact(text, old) ==
    LET hits == {p \in 1..Len(text) : HasAt(text, old, p)} IN
    IF old = <<>> \/ hits = {} THEN text
    ELSE SubSeq(text, 1, Min(hits) - 1)
         \o RemoveExact(SubSeq(text, Min(hits) + Len(old), Len(text)), old)

\* str.split(separator)[0]
BeforeFirst(text, separator) ==
    LET hits == {p \in 1..Len(text) : HasAt(text, separator, p)} IN
    IF hits = {} THEN text ELSE SubSeq(text, 1, Min(hits) - 1)

\* the separators of line 529, in the order the loop tries them
title_separators == <<S(" - "), S("_"), S(" ")>>

\* lines 479-560 on the names of the model
extract_title_from_filename(filename) ==
    LET base_name == RemoveExact(RemoveExact(filename, S(".html")), S(".htm"))
        inner     == RunLen(base_name, 2, {41}, TRUE)
        present   == {k \in 1..Len(title_separators) :
                         Contains(base_name, title_separators[k])}
    IN
    IF /\ HasAt(base_name, S("("), 1)
       /\ inner >= 1
       /\ HasAt(base_name, S(")"), 2 + inner)
    THEN SubSeq(base_name, 2, 1 + inner)
    ELSE IF Contains(base_name, Connective) THEN base_name
    ELSE IF present # {}
    THEN Strip(BeforeFirst(base_name, title_separators[Min(present)]),
               WhiteSpace)
    ELSE base_name

\* value of the hexadecimal digit c, -1 for any other character
HexValue(c) ==
    IF c \in 48..57 THEN c - 48
    ELSE IF c \in 65..70 THEN c - 55
    ELSE IF c \in 97..102 THEN c - 87
    ELSE -1

\* text[p] starts an escape '%XX'
IsEscape(text, p) ==
    /\ p + 2 <= Len(text)
    /\ text[p] = 37
    /\ HexValue(text[p + 1]) >= 0
    /\ HexValue(text[p + 2]) >= 0

\* the bytes of the run of escapes that starts at text[p]
RECURSIVE EscapeRun(_, _)
EscapeRun(text, p) ==
    IF IsEscape(text, p)
    THEN <<16 * HexValue(text[p + 1]) + HexValue(text[p + 2])>>
         \o EscapeRun(text, p + 3)
    ELSE <<>>

\* bytes.decode('utf-8', 'replace') of a run of escapes; the names of the
\* model hold only runs that decode
DecodeReplace(bs, decoded) == IF decoded.ok THEN decoded.text ELSE <<65533>>

\* urllib.parse.unquote(text): runs of escapes are decoded as UTF-8, every
\* other character is kept
RECURSIVE UnquoteFrom(_, _)
UnquoteFrom(text, p) ==
    IF p > Len(text) THEN <<>>
    ELSE IF IsEscape(text, p)
    THEN DecodeReplace(EscapeRun(text, p), Decode(EscapeRun(text, p)))
         \o UnquoteFrom(text, p + 3 * Len(EscapeRun(text, p)))
    ELSE <<text[p]>> \o UnquoteFrom(text, p + 1)

unquote(text) == UnquoteFrom(text, 1)

\* where the token of r'\[URL\]\s*([^\s]+)' starts for the marker at p
UrlTokenStart(filename, p) ==
    p + 5 + RunLen(filename, p + 5, WhiteSpace, FALSE)

\* lines 689-698
DecodedUrl(encoded_url, decoded) ==
    IF StartsWith(decoded, S("http://")) \/ StartsWith(decoded, S("https://"))
    THEN decoded
    ELSE IF \/ StartsWith(encoded_url, S("http"))
            \/ StartsWith(encoded_url, S("%"))
    THEN decoded
    ELSE encoded_url

\* the token [^\s]+ that starts at text[start]
UrlToken(filename, start) ==
    SubSeq(filename, start,
           start + RunLen(filename, start, WhiteSpace, TRUE) - 1)

UrlFromToken(encoded_url) == DecodedUrl(encoded_url, unquote(encoded_url))

\* lines 685-700 and 776 on the names of the model
_extract_url_from_filename(filename) ==
    LET hits == {p \in 1..Len(filename) :
                    /\ HasAt(filename, S("[URL]"), p)
                    /\ RunLen(filename, UrlTokenStart(filename, p),
                              WhiteSpace, TRUE) >= 1}
    IN IF hits # {}
       THEN UrlFromToken(UrlToken(filename,
                                  UrlTokenStart(filename, Min(hits))))
       ELSE <<>>

\* the names on which the patterns left out of the two extractors match
\* nothing
NameInAlphabet(filename) ==
    \/ /\ HasAt(filename, S("("), 1)
       /\ _extract_url_from_filename(filename) # <<>>
       /\ extract_title_from_filename(filename) # filename
    \/ /\ ~HasAt(filename, S("("), 1)
       /\ ~Contains(filename, S("[URL]"))
       /\ ~Contains(Lower(filename), S("http"))
       /\ ~Contains(Lower(filename), S("youtu.be"))
       /\ \A tld \in {S(".com"), S(".org"), S(".net"), S(".edu"),
                       S(".gov"), S(".io"), S(".co")} :
             ~Contains(Lower(filename), tld)

\* lines 641-655: the assembled stem and the branch of line 649 taken
AssembledFrom(title, extracted_url) ==
    IF extracted_url # <<>>
    THEN [stem |-> create_standardized_filename(title, extracted_url, 150),
          branch |-> "url"]
    ELSE [stem |-> create_enhanced_content_filename(title, 150),
          branch |-> "content"]

GenerateAssembled(original_name) ==
    AssembledFrom(extract_title_from_filename(original_name),
                  _extract_url_from_filename(original_name))

\* lines 659-661: the stem the resolver returned, made safe, and the
\* extension
GenerateFinished(final_title, extension, hash_seed) ==
    safe_filename(final_title, default_max_length, hash_seed) \o extension

\* lines 637-661; original_name is original_path.stem, extension is
\* original_path.suffix.  Neither assembler raises on the names of the
\* model, so the except clause of line 662 is not entered.
generate_optimized_filename(original_name, extension, existing_names, now, hash_seed) ==
    GenerateFinished(
        _ensure_unique_filename(GenerateAssembled(original_name).stem,
                                existing_names, 150, now).stem,
        extension, hash_seed)

(***************************************************************************)
(* Single calls of generate_optimized_filename and of safe_filename.  A    *)
(* call is evaluated up to MaxEvaluations times on the same arguments;     *)
(* every evaluation may run in a process of its own, with its own hash     *)
(* seed and its own reading of the wall clock.                             *)
(***************************************************************************)
\* number of evaluations of one call
MaxEvaluations == 2

\* length of the longest stem handed to safe_filename
MaxName == 256

\* seeds of the interpreter's str hash
HashSeeds == {0, 1}

GenerateTitles ==
    {head \o user \o sep \o content :
        head \in {S("X_") \o Connective \o S("_"), <<>>},
        user \in {S("u"), <<23453, 23453>>},
        sep \in {S("_"), S(" ")},
        content \in {S("hello"), S("aaaaa. aaaa"),
                     Rep(30701, 5) \o S(". ") \o Rep(30701, 4)}}

\* stems of archived files: a bare title, or the legacy name
\* '(title) [URL] percent-encoded-url' of docker_service.py line 226
OriginalNames ==
    GenerateTitles
    \cup {S("(") \o title \o S(") [URL] ") \o quote(url) :
             title \in GenerateTitles, url \in Urls}

\* 'X_<connective>_u_aaaaa. aaaa' as the assembler returns it
SpacedStem == S("X_") \o Connective \o S("_u_aaaaa. aaaa")

\* the same stem as safe_filename writes it to the directory
SanitizedStem == S("X_") \o Connective \o S("_u_aaaaa._aaaa")

\* 'X_<connective>_u_hello'
PlainStem == S("X_") \o Connective \o S("_u_hello")

\* stems already present in the directory
Registries ==
    { {},
      {Lower(SanitizedStem)},
      {Lower(SpacedStem)},
      {Lower(SpacedStem), Lower(SanitizedStem)},
      {Lower(SpacedStem), Lower(Numbered(SanitizedStem, 1))},
      Dense(PlainStem, BaseFilename(PlainStem, 150), LastNumber) }

\* stems handed to safe_filename directly
SafeInputs ==
    {Rep(c, n) : c \in {97, 30701, 32, 58},
                 n \in {0, 1, 85, 86, MaxName - 6, MaxName - 5,
                        MaxName - 1, MaxName, MaxName + 44}}
    \cup {S("a b"), S("a  b:c"), S("test filename for hash consistency")}

InitGenerate ==
    /\ existing_stems = {}
    /\ used_stems = {}
    /\ issued = <<>>
    /\ byte_budget = 0
    /\ input \in [fn : {"generate_optimized_filename"},
                  original_name : OriginalNames, extension : {S(".html")},
                  existing_names : Registries]
              \cup [fn : {"safe_filename"}, filename : SafeInputs,
                    extension : {S(".html")},
                    max_length : {4, 10, default_max_length}]
    /\ last = NoCall

\* one evaluation of generate_optimized_filename(original_path,
\* existing_names); the wall clock is read only once the for loop of the
\* resolver ran out
CallGenerateOptimized ==
    /\ input.fn = "generate_optimized_filename"
    /\ Len(issued) < MaxEvaluations
    /\ \E hash_seed \in HashSeeds :
       \E assembled \in {GenerateAssembled(input.original_name)} :
       \E choice \in {NumberedChoice(assembled.stem, input.existing_names,
                                     150)} :
       \E now \in (IF choice.done THEN {CHOOSE t \in Clock : TRUE}
                    ELSE Clock) :
       \E r \in {FinishChoice(choice, assembled.stem, 150, now)} :
       \E new_name \in {GenerateFinished(r.stem, input.extension,
                                         hash_seed)} :
          /\ issued' = Append(issued, new_name)
          /\ last' = [fn |-> "generate_optimized_filename",
                      original_name |-> input.original_name,
                      existing_names |-> input.existing_names,
                      branch |-> assembled.branch,
                      assembled |-> assembled.stem,
                      final_title |-> r.stem, exit |-> r.exit,
                      hash_seed |-> hash_seed,
                      result |-> new_name]
    /\ UNCHANGED <<existing_stems, used_stems, byte_budget, input>>

\* one evaluation of safe_filename(filename, max_length)
CallSafeFilename ==
    /\ input.fn = "safe_filename"
    /\ Len(issued) < MaxEvaluations
    /\ \E hash_seed \in HashSeeds :
       \E r \in {SafeFilename(input.filename, input.max_length,
                              hash_seed)} :
          /\ issued' = Append(issued, r.name)
          /\ last' = [fn |-> "safe_filename", filename |-> input.filename,
                      max_length |-> input.max_length,
                      hash_seed |-> hash_seed,
                      result |-> r.name, exit |-> r.exit]
    /\ UNCHANGED <<existing_stems, used_stems, byte_budget, input>>

NextGenerate == CallGenerateOptimized \/ CallSafeFilename

SpecGenerate == InitGenerate /\ [][NextGenerate]_vars

NamesInAlphabet == \A filename \in OriginalNames : NameInAlphabet(filename)

GenerateCalled == last.fn = "generate_optimized_filename"

SafeFilenameCalled == last.fn = "safe_filename"

\* the stem of a returned name: the name without its extension
ResultStem == SubSeq(last.result, 1, Len(last.result) - Len(input.extension))

\* C13: the stem of the name generate_optimized_filename returns is never,
\* compared without regard to letter case, a member of existing_names.
C13_StemNotInRegistry ==
    GenerateCalled =>
        Lower(ResultStem) \notin {Lower(name) : name \in last.existing_names}

\* C14: for every stem, safe_filename(stem) followed by the file extension
\* is at most 255 UTF-8 bytes long.
C14_SafeNameWithinCeiling ==
    (SafeFilenameCalled /\ last.max_length = default_max_length) =>
        ByteLen(last.result \o input.extension) <= 255

\* the latest call returned from the timestamp fallback of the resolver
\* (optimize.py lines 856-869)
TimestampFallbackTaken ==
    GenerateCalled /\ last.exit \in {"timestamp", "file"}

\* C15: evaluations of the same call on the same arguments return the same
\* name, the timestamp fallback of the resolver excepted; this includes the
\* hash suffix that safe_filename appends.
C15_SameArgumentsSameName ==
    (Len(issued) >= 2 /\ ~TimestampFallbackTaken) =>
        \A i, j \in 1..Len(issued) : issued[i] = issued[j]

(***************************************************************************)
(* optimize_filename (utils/paths.py 58-433).  Titles of the model are     *)
(* made of ASCII letters, digits, '.', white space, CJK characters and     *)
(* the symbols listed at KeywordSymbols and PlainSymbols.                  *)
(***************************************************************************)
\* the emoji_ranges of lines 71-87 as <<first, last>> code points
emoji_ranges ==
    <<<<128512, 128591>>, <<127744, 128511>>, <<128640, 128767>>,
      <<127456, 127487>>, <<128768, 128895>>, <<128896, 129023>>,
      <<129024, 129279>>, <<129280, 129535>>, <<129536, 129647>>,
      <<129648, 129791>>, <<9728, 9983>>, <<9984, 10175>>,
      <<65024, 65039>>, <<126976, 127023>>, <<127136, 127231>>>>

\* symbols of category So outside the ranges whose Unicode name holds a
\* keyword of lines 106-109: U+2B50 WHITE MEDIUM STAR
KeywordSymbols == {11088}

\* symbols of category So outside the ranges whose name holds no keyword:
\* U+231A WATCH, U+2B1B BLACK LARGE SQUARE
PlainSymbols == {8986, 11035}

\* lines 91-110: the character is skipped
IsEmoji(c) ==
    \/ \E k \in 1..Len(emoji_ranges) :
          emoji_ranges[k][1] <= c /\ c <= emoji_ranges[k][2]
    \/ c \in KeywordSymbols

\* lines 67-119
remove_emoji(text) ==
    Strip(CollapseRuns(SelectSeq(text, LAMBDA c : ~IsEmoji(c)), WhiteSpace),
          WhiteSpace)

\* str(n) for n >= 0
RECURSIVE Decimal(_)
Decimal(n) ==
    IF n < 10 THEN <<48 + n>> ELSE Decimal(n \div 10) \o <<48 + (n % 10)>>

\* text.split(): the words between runs of white space
RECURSIVE Split(_)
Split(text) ==
    LET rest == LStrip(text, WhiteSpace) IN
    IF rest = <<>> THEN <<>>
    ELSE <<SubSeq(rest, 1, RunLen(rest, 1, WhiteSpace, TRUE))>>
         \o Split(SubSeq(rest, RunLen(rest, 1, WhiteSpace, TRUE) + 1, Len(rest)))

\* ' '.join(words)
RECURSIVE Join(_)
Join(words) ==
    IF words = <<>> THEN <<>>
    ELSE IF Len(words) = 1 THEN words[1]
    ELSE words[1] \o <<32>> \o Join(Tail(words))

\* datetime.now().strftime('%Y%m%d_%H%M%S'); the clock readings of the
\* model fall on 2026-01-01
StrfDateTime(now) == S("20260101_") \o StrfTime(now)

\* lines 136-151
_generate_fallback_name(base_name, existing_names, now) ==
    LET existing_lower == {Lower(name) : name \in existing_names}
        free == {i \in 1..LastNumber :
                    Lower(base_name \o S("_") \o Decimal(i))
                        \notin existing_lower}
    IN
    IF Lower(base_name) \notin existing_lower
    THEN [name |-> base_name, exit |-> "placeholder"]
    ELSE IF free # {}
    THEN [name |-> base_name \o S("_") \o Decimal(Min(free)),
          exit |-> "placeholder_numbered"]
    ELSE [name |-> base_name \o S("_") \o StrfDateTime(now),
          exit |-> "placeholder_timestamp"]

\* the marker "..." of the truncation paths
ThreeDots == S("...")

\* characters the class \w matches in a title of the model
WordChars == (97..122) \cup (65..90) \cup (48..57) \cup {95} \cup (19968..40959)

\* a run of characters of set, of at least n characters, starts at word[p]
\* and has \b on both sides
BoundedRun(word, p, set, n) ==
    /\ word[p] \in set
    /\ p = 1 \/ word[p - 1] \notin WordChars
    /\ RunLen(word, p, set, FALSE) >= n
    /\ \/ p + RunLen(word, p, set, FALSE) > Len(word)
       \/ word[p + RunLen(word, p, set, FALSE)] \notin WordChars

\* lines 402-417: one of the differentiator_patterns is found in word.  With
\* re.IGNORECASE the first pattern finds every run of two ASCII letters or
\* more between word boundaries, which covers the words of the other
\* patterns; the second finds a run of digits.
IsDifferentiator(word) ==
    \E p \in 1..Len(word) :
        \/ BoundedRun(word, p, (97..122) \cup (65..90), 2)
        \/ BoundedRun(word, p, 48..57, 1)

\* lines 391-433
_preserve_key_differences(title, max_length, existing_names) ==
    LET words == Split(title)
        fitting == {k \in 1..Len(words) :
                       /\ IsDifferentiator(words[k])
                       /\ Len(words[1]) + 1 + Len(words[2]) + 3
                              + Len(words[k]) <= max_length}
    IN
    IF existing_names = {} \/ max_length < 20 THEN <<>>
    ELSE IF Len(words) < 3 THEN <<>>
    ELSE IF fitting = {} THEN <<>>
    ELSE words[1] \o <<32>> \o words[2] \o ThreeDots \o words[Min(fitting)]

\* lines 350-378; positions are counted from 0 as in the code, title[pos]
\* of the code is title[pos + 1] here
_find_optimal_truncation_point(title, target_length) ==
    LET search_start == Max({0, target_length - 15})
        search_end   == Min({Len(title), target_length + 5})
        ends    == {pos \in search_start..(search_end - 1) :
                       /\ title[pos + 1] \in {46, 33, 63}
                       /\ pos <= target_length - 2}
        clauses == {pos \in search_start..(search_end - 1) :
                       /\ title[pos + 1] \in {44, 58, 59}
                       /\ pos <= target_length - 2}
        spaces  == {pos \in search_start..target_length :
                       pos < Len(title) /\ title[pos + 1] = 32}
    IN
    IF Len(title) <= target_length THEN Len(title)
    ELSE IF ends # {} THEN Max(ends) + 1
    ELSE IF clauses # {} THEN Max(clauses) + 1
    ELSE IF spaces # {} THEN Max(spaces)
    ELSE target_length

\* lines 304-305: the words of one registered name
ExistingWords(existing) ==
    LET words == Split(Lower(Strip(RemoveExact(existing, ThreeDots),
                                   WhiteSpace)))
    IN {words[k] : k \in 1..Len(words)}

\* lines 322-335 for the words and the list positions (from 1) of the
\* unique words; the result is returned without a look at the registry
DifferentiatedFrom(words, unique, max_length) ==
    LET prefix_length   == Min({Len(Join(SubSeq(words, 1, Min({3, Len(words)})))),
                                max_length \div 2})
        remaining_space == max_length - prefix_length - 3
        fitting == {k \in unique :
                       /\ Len(words[k]) <= remaining_space
                       /\ Len(Join(SubSeq(words, 1, Min({3, k - 1}))))
                              + Len(words[k]) + 4 <= max_length}
    IN
    IF remaining_space > 0 /\ fitting # {}
    THEN Join(SubSeq(words, 1, Min({3, Min(fitting) - 1})))
         \o ThreeDots \o words[Min(fitting)]
    ELSE <<>>

\* lines 292-337
_find_unique_differentiated_truncation(title, max_length, existing_names) ==
    LET words  == Split(title)
        unique == {k \in 1..Len(words) :
                      /\ \A existing \in existing_names :
                            Lower(words[k]) \notin ExistingWords(existing)
                      /\ Len(words[k]) > 2}
    IN
    IF existing_names = {} THEN <<>>
    ELSE IF Len(words) < 2 THEN <<>>
    ELSE IF unique = {} THEN <<>>
    ELSE DifferentiatedFrom(words, unique, max_length)

\* hashlib.md5(title.encode('utf-8')).hexdigest()[:6]: six hexadecimal
\* digits that are a fixed function of the text.  The model keeps a fixed
\* function of the text in place of MD5.
LowerHexDigit(d) == IF d < 10 THEN 48 + d ELSE 87 + d

TitleHash(title) ==
    LET n == CodePointSum(title, 1, Len(title)) * 7919 + Len(title) IN
    [k \in 1..6 |-> LowerHexDigit((n \div (16 ^ (6 - k))) % 16)]

\* lines 203-211: max_length <= 3
TruncateTiny(title, max_length, existing_lower) ==
    LET free == {i \in 1..9 :
                    Lower(Prefix(title, max_length - 1) \o Decimal(i))
                        \notin existing_lower}
    IN
    IF Lower(Prefix(title, max_length)) \notin existing_lower
    THEN [name |-> Prefix(title, max_length), exit |-> "tiny"]
    ELSE IF max_length > 1 /\ free # {}
    THEN [name |-> Prefix(title, max_length - 1) \o Decimal(Min(free)),
          exit |-> "tiny_numbered"]
    ELSE [name |-> Prefix(title, max_length), exit |-> "tiny_fallback"]

\* lines 222-231: 3 < max_length <= 10
TruncateShort(title, max_length, existing_lower) ==
    LET base == Prefix(title, max_length - 2)
        free == {i \in 1..99 :
                    /\ Len(base) + 2 <= max_length
                    /\ Lower(base \o Pad2(i)) \notin existing_lower}
    IN
    IF free # {}
    THEN [name |-> base \o Pad2(Min(free)), exit |-> "short_numbered"]
    ELSE [name |-> Prefix(title, max_length), exit |-> "short_fallback"]

\* lines 240-258: the attempt lengths of the for loop, longest first, whose
\* candidate is not registered
ProgressiveCandidate(title, attempt_length) ==
    Prefix(title, _find_optimal_truncation_point(title, attempt_length))
    \o ThreeDots

FreeAttempts(title, max_length, existing_lower) ==
    {attempt_length \in Max({max_length \div 2, 20})..(max_length - 3) :
        /\ (max_length - 3 - attempt_length) % 2 = 0
        /\ Lower(ProgressiveCandidate(title, attempt_length))
               \notin existing_lower}

\* lines 265-279: the name with the hash suffix, returned without a look
\* at the registry
HashSuffixed(title, max_length) ==
    LET hash_suffix == ThreeDots \o TitleHash(title)
        base_length == max_length - Len(hash_suffix)
    IN
    IF base_length <= 0 THEN Prefix(TitleHash(title), max_length)
    ELSE Prefix(title, base_length) \o hash_suffix

\* lines 233-279 for the results of the two helper calls
TruncateLong(title, max_length, existing_lower, unique_candidate, differentiated) ==
    LET attempts == FreeAttempts(title, max_length, existing_lower) IN
    IF unique_candidate # <<>>
    THEN [name |-> unique_candidate, exit |-> "differentiated"]
    ELSE IF attempts # {}
    THEN [name |-> ProgressiveCandidate(title, Max(attempts)),
          exit |-> "progressive"]
    ELSE IF differentiated # <<>> /\ Lower(differentiated) \notin existing_lower
    THEN [name |-> differentiated, exit |-> "key_differences"]
    ELSE [name |-> HashSuffixed(title, max_length), exit |-> "hash"]

\* lines 200-279; exit names the return statement taken
ProgressiveTruncate(title, max_length, existing_names, existing_lower) ==
    IF max_length <= 3 THEN TruncateTiny(title, max_length, existing_lower)
    ELSE IF Len(title) <= max_length /\ Lower(title) \notin existing_lower
    THEN [name |-> title, exit |-> "fits"]
    ELSE IF max_length <= 10
    THEN TruncateShort(title, max_length, existing_lower)
    ELSE TruncateLong(title, max_length, existing_lower,
             _find_unique_differentiated_truncation(title, max_length,
                                                    existing_names),
             _preserve_key_differences(title, max_length, existing_names))

_progressive_truncate_with_uniqueness(title, max_length, existing_names) ==
    ProgressiveTruncate(title, max_length, existing_names,
                        {Lower(name) : name \in existing_names}).name

\* lines 174-184 for the title without emoji; line 180 compares with
\* existing_names as they are
OptimizeClean(clean_title, max_length, existing_names) ==
    IF Len(clean_title) <= max_length /\ Lower(clean_title) \notin existing_names
    THEN [name |-> clean_title, exit |-> "as_is"]
    ELSE ProgressiveTruncate(clean_title, max_length, existing_names,
                             {Lower(name) : name \in existing_names})

\* lines 164-184; exit names the return statement taken
OptimizeFilename(title, max_length, existing_names, now) ==
    IF title = <<>> \/ Strip(remove_emoji(title), WhiteSpace) = <<>>
    THEN _generate_fallback_name(S("untitled"), existing_names, now)
    ELSE OptimizeClean(Strip(CollapseRuns(remove_emoji(title), WhiteSpace),
                             WhiteSpace),
                       max_length, existing_names)

optimize_filename(title, max_length, existing_names, now) ==
    OptimizeFilename(title, max_length, existing_names, now).name

(***************************************************************************)
(* The loop of test_edge_cases (src/test_comprehensive_validation.py       *)
(* 173-186): every title is optimized against the registry, then the       *)
(* lower-cased result is added to the registry.                            *)
(***************************************************************************)
\* number of titles of a sequence
MaxTitles == 3

\* empty, white space only, emoji only (the cases of
\* test_empty_title_fallback, then one symbol with a keyword name and one
\* without)
BlankTitles ==
    {<<>>, S("   "), <<127881, 127874, 127880>>, <<11088>>, <<8986>>}

OptimizeTitles ==
    BlankTitles
    \cup {S("abcd"), S("ab cd"), S("ab cde fgh"), S("hello world"),
          S("Python Programming Tutorial"), S("untitled")}

\* values of max_length: one for each branch of lines 203, 222 and 233,
\* and the 50 of test_edge_cases
MaxLengths == {3, 10, 12, 20, 50}

InitOptimize ==
    /\ existing_stems = {}
    /\ used_stems = {}
    /\ issued = <<>>
    /\ byte_budget = 0
    /\ input \in [fn : {"optimize_filename"}, max_length : MaxLengths]
    /\ last = NoCall

\* one pass of the loop: optimize_filename(title, max_length,
\* existing_names), then existing_names.add(optimized.lower())
Optimize(title) ==
    /\ Len(issued) < MaxTitles
    /\ \E now \in {CHOOSE t \in Clock : TRUE} :
       \E r \in {OptimizeFilename(title, input.max_length, used_stems,
                                  now)} :
          /\ used_stems' = used_stems \cup {Lower(r.name)}
          /\ issued' = Append(issued, r.name)
          /\ last' = [fn |-> "optimize_filename", title |-> title,
                      max_length |-> input.max_length,
                      existing_names |-> used_stems,
                      result |-> r.name, exit |-> r.exit]
    /\ UNCHANGED <<existing_stems, byte_budget, input>>

\* create_enhanced_content_filename(title, max_bytes=150), the call of
\* optimize.py line 655, on a blank title
AssembleBlank(title) ==
    /\ \E r \in {EnhancedContentFilename(title, 150)} :
          last' = [fn |-> "create_enhanced_content_filename",
                   title |-> title, max_bytes |-> 150,
                   result |-> r.stem, exit |-> r.exit]
    /\ UNCHANGED <<existing_stems, used_stems, issued, byte_budget, input>>

NextOptimize ==
    \/ \E title \in OptimizeTitles : Optimize(title)
    \/ \E title \in BlankTitles : AssembleBlank(title)

SpecOptimize == InitOptimize /\ [][NextOptimize]_vars

OptimizeCalled == last.fn = "optimize_filename"

\* the title is empty or holds only white space, emoji and symbols
IsBlankTitle(title) ==
    \A k \in 1..Len(title) :
        \/ title[k] \in WhiteSpace
        \/ IsEmoji(title[k])
        \/ title[k] \in PlainSymbols

\* C16: a title that is empty, white space only or emoji only never gives
\* an empty stem; optimize_filename returns 'untitled' for it when that
\* name is free, and create_enhanced_content_filename returns for it what
\* it returns for the empty title.
C16_BlankTitlePlaceholder ==
    /\ (OptimizeCalled /\ IsBlankTitle(last.title)) =>
          /\ last.result # <<>>
          /\ Lower(S("untitled")) \notin last.existing_names =>
                last.result = S("untitled")
    /\ (EnhancedContentCalled /\ IsBlankTitle(last.title)) =>
          /\ last.result # <<>>
          /\ last.result = create_enhanced_content_filename(<<>>, 150)

\* C17: in a sequence of optimize_filename calls whose lower-cased results
\* are added to existing_names one after the other, no result equals,
\* compared without regard to letter case, a name already in
\* existing_names.
C17_OptimizedNotRegistered ==
    OptimizeCalled => Lower(last.result) \notin last.existing_names

(***************************************************************************)
(* The registry of the batch loop, checked under Spec                      *)
(***************************************************************************)
\* C18: the batch loop resolves one file after the other against a registry
\* that only grows: every step appends one stem to the issued stems, adds
\* its lower-cased form to used_stems before the next file is resolved, was
\* resolved against a registry that holds every stem issued earlier, and
\* removes no name from used_stems or existing_stems.
C18_SequentialAppendOnly ==
    [][/\ existing_stems' = existing_stems
       /\ used_stems \subseteq used_stems'
       /\ Len(issued') = Len(issued) + 1
       /\ SubSeq(issued', 1, Len(issued)) = issued
       /\ Lower(issued'[Len(issued')]) \in used_stems'
       /\ \A k \in 1..Len(issued) :
             /\ Lower(issued[k]) \in used_stems
             /\ Lower(issued[k]) \in last'.existing_lower]_vars

\* the second file of a batch in an empty directory met the stem issued to
\* the first one and was given a numbered variant
C18_Witness ==
    /\ Len(issued) = 2
    /\ existing_stems = {}
    /\ Lower(issued[1]) \in last.existing_lower
    /\ Lower(issued[1]) = Lower(last.filename)
    /\ last.exit = "numbered"
    /\ {Lower(issued[1]), Lower(issued[2])} \subseteq used_stems

(***************************************************************************)
(* Several callers of _ensure_unique_filename on one registry.  A caller   *)
(* runs the two statements of the batch loop, the call of lines 985-989    *)
(* and used_stems.add of line 1001, either as two steps that other         *)
(* callers may interleave with or, when input.atomic holds, as one step.   *)
(* last[p] is the position of caller p and the outcome of its call.        *)
(***************************************************************************)
\* number of callers
MaxCallers == 2

Callers == 1..MaxCallers

\* directory listings the callers start from
SharedDirectories ==
    { {},
      Dense(S("test"), S("test"), 2),
      Dense(S("test"), S("test"), LastNumber) }

InitShared ==
    /\ existing_stems \in SharedDirectories
    /\ used_stems = {}
    /\ issued = <<>>
    /\ byte_budget \in {17, 150}
    /\ input \in [fn : {"shared_registry"}, atomic : BOOLEAN]
    /\ last = [p \in Callers |-> NoCall]

\* the call of lines 985-989 by caller p: the registry is read, nothing is
\* written
ReadRegistry(p, base_stem) ==
    /\ ~input.atomic
    /\ last[p] = NoCall
    /\ \E choice \in {NumberedChoice(base_stem,
                                     used_stems \cup existing_stems,
                                     byte_budget)} :
       \E now \in (IF choice.done THEN {CHOOSE t \in Clock : TRUE}
                    ELSE Clock) :
       \E r \in {FinishChoice(choice, base_stem, byte_budget, now)} :
          last' = [last EXCEPT ![p] =
                      [fn |-> "_ensure_unique_filename",
                       filename |-> base_stem, result |-> r.stem,
                       exit |-> r.exit, inserted |-> FALSE]]
    /\ UNCHANGED <<existing_stems, used_stems, issued, byte_budget, input>>

\* line 1001 by caller p: the stem it was given is added to the registry
InsertResult(p) ==
    /\ ~input.atomic
    /\ last[p] # NoCall
    /\ ~last[p].inserted
    /\ used_stems' = used_stems \cup {Lower(last[p].result)}
    /\ issued' = Append(issued, last[p].result)
    /\ last' = [last EXCEPT ![p].inserted = TRUE]
    /\ UNCHANGED <<existing_stems, byte_budget, input>>

\* lines 985-1001 by caller p without a step of another caller in between
ResolveAndInsert(p, base_stem) ==
    /\ input.atomic
    /\ last[p] = NoCall
    /\ \E choice \in {NumberedChoice(base_stem,
                                     used_stems \cup existing_stems,
                                     byte_budget)} :
       \E now \in (IF choice.done THEN {CHOOSE t \in Clock : TRUE}
                    ELSE Clock) :
       \E r \in {FinishChoice(choice, base_stem, byte_budget, now)} :
          /\ used_stems' = used_stems \cup {Lower(r.stem)}
          /\ issued' = Append(issued, r.stem)
          /\ last' = [last EXCEPT ![p] =
                         [fn |-> "_ensure_unique_filename",
                          filename |-> base_stem, result |-> r.stem,
                          exit |-> r.exit, inserted |-> TRUE]]
    /\ UNCHANGED <<existing_stems, byte_budget, input>>

NextShared ==
    \E p \in Callers :
        \/ \E base_stem \in Stems : ReadRegistry(p, base_stem)
        \/ InsertResult(p)
        \/ \E base_stem \in Stems : ResolveAndInsert(p, base_stem)

SpecShared == InitShared /\ [][NextShared]_vars

\* two callers have been issued the same stem
SharedDuplicate ==
    \E i, j \in 1..Len(issued) :
        i # j /\ Lower(issued[i]) = Lower(issued[j])

\* two callers resolved the same candidate, both before either inserted,
\* and hold the same stem
InterleavedDuplicate ==
    /\ ~input.atomic
    /\ existing_stems = {}
    /\ \E p, q \in Callers :
          /\ p # q
          /\ last[p] # NoCall /\ last[q] # NoCall
          /\ last[p].inserted /\ last[q].inserted
          /\ last[p].filename = last[q].filename
          /\ last[p].exit = "asis" /\ last[q].exit = "asis"
    /\ SharedDuplicate

\* C19: when every caller resolves and inserts in one atomic step, no
\* interleaving of the callers reaches a state in which two of them have
\* been issued the same stem.
C19_AtomicIssuesDistinct == input.atomic => ~SharedDuplicate

(***************************************************************************)
(* scan_archive_directory (optimize.py 872-929)                            *)
(***************************************************************************)
\* the byte length of line 912 up to which a file is left alone
length_threshold == 255

\* text ends with lit
EndsWith(text, lit) ==
    /\ Len(lit) <= Len(text)
    /\ SubSeq(text, Len(text) - Len(lit) + 1, Len(text)) = lit

\* directory.glob('*' + suffix) on a listing: the names that end with
\* suffix, in listing order
Glob(listing, suffix) == SelectSeq(listing, LAMBDA name : EndsWith(name, suffix))

\* Path(name).stem: name without its last suffix
PathStem(name) ==
    LET dots == {i \in 2..(Len(name) - 1) : name[i] = 46} IN
    IF dots = {} THEN name ELSE SubSeq(name, 1, Max(dots) - 1)

\* the four emoji ranges of the pattern of line 919
ScanEmoji ==
    (128512..128591) \cup (127744..128511) \cup (128640..128767)
    \cup (127456..127487)

\* lines 917-921: the file counts as already optimized
AlreadyOptimized(stem) ==
    /\ Len(stem) <= 120
    /\ \A k \in 1..Len(stem) : stem[k] <= 127
    /\ \A k \in 1..Len(stem) : stem[k] \notin ScanEmoji

\* the value of stats before the loop, lines 897-902
NewStats(files) ==
    [total_found |-> Len(files), needs_processing |-> 0,
     skipped_short |-> 0, already_optimized |-> 0]

\* mutant of ScanFile: a name of exactly length_threshold bytes is processed
ScanFile_ThresholdProcessed(name, acc) ==
    IF ByteLen(name) < length_threshold
    THEN [acc EXCEPT !.skipped_short = Append(@, name),
                     !.stats.skipped_short = @ + 1]
    ELSE [acc EXCEPT !.files_to_process = Append(@, name),
                     !.stats.needs_processing = @ + 1,
                     !.stats.already_optimized =
                         IF AlreadyOptimized(PathStem(name)) THEN @ + 1
                         ELSE @]

\* one pass through the body of the for loop, lines 904-924; acc holds
\* files_to_process, skipped_short and stats
ScanFile(name, acc) ==
    IF ByteLen(name) <= length_threshold
    THEN [acc EXCEPT !.skipped_short = Append(@, name),
                     !.stats.skipped_short = @ + 1]
    ELSE [acc EXCEPT !.files_to_process = Append(@, name),
                     !.stats.needs_processing = @ + 1,
                     !.stats.already_optimized =
                         IF AlreadyOptimized(PathStem(name)) THEN @ + 1
                         ELSE @]

\* the for loop over files[k..]
RECURSIVE ScanLoop(_, _, _)
ScanLoop(files, k, acc) ==
    IF k > Len(files) THEN acc
    ELSE ScanLoop(files, k + 1, ScanFile(files[k], acc))

\* lines 889-890: the files of the pattern, then the '.htm' files
ScanFiles(listing, suffix) == Glob(listing, suffix) \o Glob(listing, S(".htm"))

\* lines 883-929 for a directory with the given listing; exists is the
\* value of directory.exists(), suffix is the pattern without its '*'
scan_archive_directory(exists, listing, suffix) ==
    IF ~exists THEN [files_to_process |-> <<>>, stats |-> <<>>]
    ELSE LET acc == ScanLoop(ScanFiles(listing, suffix), 1,
                        [files_to_process |-> <<>>, skipped_short |-> <<>>,
                         stats |-> NewStats(ScanFiles(listing, suffix))])
         IN [files_to_process |-> acc.files_to_process, stats |-> acc.stats]

\* number of files of a scanned directory
MaxFiles == 3

\* 'a.html'; ASCII names of 254, 255 and 256 bytes; CJK names of 255 and
\* 256 bytes; a '.htm' name of 256 bytes; a '.txt' name of 264 bytes; a
\* name of 63 emoji, 257 bytes
ScanNames ==
    {S("a.html"),
     Rep(97, 249) \o S(".html"), Rep(97, 250) \o S(".html"),
     Rep(97, 251) \o S(".html"),
     Rep(30701, 83) \o S("a.html"), Rep(30701, 83) \o S("aa.html"),
     Rep(97, 252) \o S(".htm"), Rep(97, 260) \o S(".txt"),
     Rep(128512, 63) \o S(".html")}

\* directory listings: up to MaxFiles different names in any order
RECURSIVE Listings(_)
Listings(n) ==
    IF n = 0 THEN {<<>>}
    ELSE Listings(n - 1)
         \cup {Append(listing, name) :
                  listing \in {l \in Listings(n - 1) : Len(l) = n - 1},
                  name \in ScanNames}

DistinctListings ==
    {listing \in Listings(MaxFiles) :
        \A i, j \in 1..Len(listing) : i # j => listing[i] # listing[j]}

InitScan ==
    /\ existing_stems = {}
    /\ used_stems = {}
    /\ issued = <<>>
    /\ byte_budget = 0
    /\ input \in [fn : {"scan_archive_directory"}, exists : BOOLEAN,
                  listing : DistinctListings,
                  suffix : {S(".html"), S(".htm")}]
    /\ last = NoCall

\* scan_archive_directory(directory, pattern)
CallScan ==
    /\ last = NoCall
    /\ \E r \in {scan_archive_directory(input.exists, input.listing,
                                        input.suffix)} :
          last' = [fn |-> "scan_archive_directory",
                   files_to_process |-> r.files_to_process,
                   stats |-> r.stats]
    /\ UNCHANGED <<existing_stems, used_stems, issued, byte_budget, input>>

NextScan == CallScan

SpecScan == InitScan /\ [][NextScan]_vars

ScanCalled == last.fn = "scan_archive_directory"

\* the names of seq
Range(seq) == {seq[k] : k \in 1..Len(seq)}

\* C20: scan_archive_directory selects a file it found if and only if the
\* UTF-8 byte length of its full name is greater than 255 (a name of
\* exactly 255 bytes is skipped), and in its statistics needs_processing
\* plus skipped_short equals total_found.
C20_SelectsOverThreshold ==
    (ScanCalled /\ input.exists) =>
        /\ \A name \in Range(ScanFiles(input.listing, input.suffix)) :
              name \in Range(last.files_to_process) <=> ByteLen(name) > 255
        /\ Range(last.files_to_process) \subseteq Range(input.listing)
        /\ last.stats.needs_processing + last.stats.skipped_short
               = last.stats.total_found
        /\ last.stats.needs_processing = Len(last.files_to_process)

\* a scan that met a CJK name of exactly 255 bytes and skipped it, and a
\* CJK name of 256 bytes and selected it
C20_Witness ==
    /\ ScanCalled /\ input.exists
    /\ \E name \in Range(input.listing) :
          /\ ByteLen(name) = 255 /\ Len(name) < 255
          /\ EndsWith(name, S(".html"))
          /\ name \notin Range(last.files_to_process)
    /\ \E name \in Range(last.files_to_process) :
          ByteLen(name) = 256 /\ Len(name) < 255
    /\ last.stats.skipped_short >= 1
    /\ last.stats.needs_processing >= 1


(***************************************************************************)
(* generate_rename_operations (optimize.py 932-1041).  A directory is the  *)
(* sequence of its file names in the order glob yields them.               *)
(***************************************************************************)
\* Path(name).suffix
PathSuffix(name) == SubSeq(name, Len(PathStem(name)) + 1, Len(name))

\* length of a name in UTF-16 code units
Utf16Len(name) == Len(name) + Cardinality({k \in 1..Len(name) : name[k] > 65535})

\* the longest name the file system of the directory stores: 255 UTF-8
\* bytes ("bytes": ext4 and most Unix file systems) or 255 UTF-16 code
\* units ("units": APFS, HFS+, NTFS)
NameTooLong(name, filesystem) ==
    IF filesystem = "bytes" THEN ByteLen(name) > 255 ELSE Utf16Len(name) > 255

\* lines 949-950: the lower-cased stems of the files of the directory
DirectoryStems(listing) == {Lower(PathStem(listing[k])) : k \in 1..Len(listing)}

RenameOperation(old_name, new_name, conflict, reason) ==
    [old_name |-> old_name, new_name |-> new_name, conflict |-> conflict,
     reason |-> reason]

\* lines 996-1034 for one file: new_path.exists() of line 1008 raises
\* OSError on a name the file system cannot store, and the except clause
\* of line 1023 then records the file under its old name
OperationOf(name, final_filename, listing, filesystem) ==
    IF NameTooLong(final_filename, filesystem)
    THEN RenameOperation(name, name, TRUE, "Processing error")
    ELSE IF (\E k \in 1..Len(listing) : listing[k] = final_filename)
            /\ final_filename # name
    THEN RenameOperation(name, final_filename, TRUE,
                         "Target file already exists on disk")
    ELSE RenameOperation(name, final_filename, FALSE, "")

\* lines 966-989: the stem the resolver issues for one file
UniqueStemOf(name, all_existing_stems, now, hash_seed) ==
    _ensure_unique_filename(
        PathStem(generate_optimized_filename(PathStem(name), PathSuffix(name),
                                             {}, now, hash_seed)),
        all_existing_stems, 150, now).stem

\* one pass through the body of the for loop, lines 963-1035; acc holds
\* operations and used_stems
RenameStep(name, unique_stem, acc, listing, filesystem) ==
    [operations |-> Append(acc.operations,
                           OperationOf(name, unique_stem \o PathSuffix(name),
                                       listing, filesystem)),
     used_stems |-> acc.used_stems \cup {Lower(unique_stem)}]

\* the for loop over files[k..]
RECURSIVE RenameLoop(_, _, _, _, _, _, _)
RenameLoop(files, k, acc, listing, filesystem, now, hash_seed) ==
    IF k > Len(files) THEN acc
    ELSE RenameLoop(files, k + 1,
                    RenameStep(files[k],
                               UniqueStemOf(files[k],
                                            acc.used_stems
                                                \cup DirectoryStems(listing),
                                            now, hash_seed),
                               acc, listing, filesystem),
                    listing, filesystem, now, hash_seed)

\* generate_rename_operations(files) for files of a directory with the
\* given listing
generate_rename_operations(files, listing, filesystem, now, hash_seed) ==
    RenameLoop(files, 1, [operations |-> <<>>, used_stems |-> {}],
               IF files = <<>> THEN <<>> ELSE listing,
               filesystem, now, hash_seed).operations


(***************************************************************************)
(* apply_operations (optimize.py 1250-1284) and optimize_filenames_command *)
(* (optimize.py 1287-1387).  The running call is held in last: pc is the   *)
(* statement it stands at, directory the set of names on disk, operations  *)
(* the list handed to apply_operations, k the position of its for loop,    *)
(* log the prompts answered and the renames performed so far, in order.    *)
(***************************************************************************)
\* the names of seq
NamesOf(seq) == {seq[k] : k \in 1..Len(seq)}

\* Confirm.ask(question) answered with granted
Asked(question, granted) ==
    [event |-> "ask", question |-> question, granted |-> granted]

\* op.old_path.rename(op.new_path) returned
Renamed(op) ==
    [event |-> "rename", old_name |-> op.old_name, new_name |-> op.new_name]

\* the directory after old_path.rename(new_path): the target name now
\* names the file, whatever it named before
AfterRename(directory, op) == (directory \ {op.old_name}) \cup {op.new_name}

\* line 1274 raises: always when the file is gone or the file system
\* cannot store the new name, otherwise whenever the system call fails
RenameMustFail(op, directory, filesystem) ==
    \/ op.old_name \notin directory
    \/ NameTooLong(op.new_name, filesystem)

\* mutant of ApplyStep: the conflict flag is not looked at
ApplyStep_IgnoresConflict(st, op, force, renames) ==
    IF op.old_name = op.new_name THEN [st EXCEPT !.k = @ + 1]
    ELSE IF renames
    THEN [st EXCEPT !.k = @ + 1, !.successful = @ + 1,
                    !.directory = AfterRename(@, op),
                    !.log = Append(@, Renamed(op))]
    ELSE [st EXCEPT !.k = @ + 1, !.failed = @ + 1]

\* one pass through the body of the for loop, lines 1263-1282; renames
\* tells whether the system call of line 1274 returns
ApplyStep(st, op, force, renames) ==
    IF op.old_name = op.new_name THEN [st EXCEPT !.k = @ + 1]
    ELSE IF op.conflict /\ ~force
    THEN [st EXCEPT !.k = @ + 1, !.failed = @ + 1]
    ELSE IF renames
    THEN [st EXCEPT !.k = @ + 1, !.successful = @ + 1,
                    !.directory = AfterRename(@, op),
                    !.log = Append(@, Renamed(op))]
    ELSE [st EXCEPT !.k = @ + 1, !.failed = @ + 1]

\* the state of a call of apply_operations(operations, force) at line 1263
ApplyStart(fn, directory, operations, log) ==
    [fn |-> fn, pc |-> "apply", directory |-> directory,
     operations |-> operations, k |-> 1, successful |-> 0, failed |-> 0,
     log |-> log]

\* the state of a command that returned or exited before line 1382
CommandEnd(pc, directory, operations, log) ==
    [fn |-> "optimize_filenames_command", pc |-> pc,
     directory |-> directory, operations |-> operations, k |-> 1,
     successful |-> 0, failed |-> 0, log |-> log]

\* one iteration of the for loop of apply_operations
ApplyOperation ==
    /\ last.pc = "apply"
    /\ last.k <= Len(last.operations)
    /\ \E op \in {last.operations[last.k]} :
       \E renames \in (IF RenameMustFail(op, last.directory, input.filesystem)
                       THEN {FALSE} ELSE BOOLEAN) :
          last' = ApplyStep(last, op, input.force, renames)
    /\ UNCHANGED <<existing_stems, used_stems, issued, byte_budget, input>>

\* line 1284: the loop ran out and the counts are returned
ReturnCounts ==
    /\ last.pc = "apply"
    /\ last.k > Len(last.operations)
    /\ last' = [last EXCEPT !.pc = "done"]
    /\ UNCHANGED <<existing_stems, used_stems, issued, byte_budget, input>>

\* lines 1302-1329 with FF_BATCH_PROCESSING set, or unset under --force
CheckFeatureFlag ==
    /\ last.pc = "flag"
    /\ last' = [last EXCEPT !.pc = IF input.flag THEN "scan"
                                   ELSE IF input.force THEN "exit"
                                   ELSE "ask_enable"]
    /\ UNCHANGED <<existing_stems, used_stems, issued, byte_budget, input>>

\* lines 1319-1325: the answer to the offer to enable batch processing
AnswerEnable ==
    /\ last.pc = "ask_enable"
    /\ \E enable_flag \in BOOLEAN :
          last' = [last EXCEPT !.pc = IF enable_flag THEN "scan" ELSE "exit",
                               !.log = Append(@, Asked("enable", enable_flag))]
    /\ UNCHANGED <<existing_stems, used_stems, issued, byte_budget, input>>

\* lines 1370-1376 on the operations of line 1360
PlanApply(operations, operations_to_apply, listing, dry_run, force, interactive, log) ==
    IF dry_run \/ operations_to_apply = <<>>
    THEN CommandEnd("done", NamesOf(listing), operations, log)
    ELSE IF ~force /\ ~interactive
    THEN CommandEnd("ask_proceed", NamesOf(listing), operations_to_apply, log)
    ELSE ApplyStart("optimize_filenames_command", NamesOf(listing),
                    operations_to_apply, log)

\* mutant of PlanCommand: the dry-run return of line 1365 is missing
PlanCommand_NoDryRun(files, operations, listing, dry_run, force, interactive, log) ==
    IF files = <<>>
    THEN CommandEnd("done", NamesOf(listing), <<>>, log)
    ELSE PlanApply(operations,
                   SelectSeq(operations, LAMBDA op : ~op.conflict \/ force),
                   listing, FALSE, force, interactive, log)

\* lines 1352-1376 on the files of line 1343 and the operations of line
\* 1360
PlanCommand(files, operations, listing, dry_run, force, interactive, log) ==
    IF files = <<>>
    THEN CommandEnd("done", NamesOf(listing), <<>>, log)
    ELSE PlanApply(operations,
                   SelectSeq(operations, LAMBDA op : ~op.conflict \/ force),
                   listing, dry_run, force, interactive, log)

\* lines 1331-1376: the scan, the operations, their preview, and the way
\* on to apply_operations.  The pattern is the default '*.html'.
ScanAndPlan ==
    /\ last.pc = "scan"
    /\ \E hash_seed \in HashSeeds :
       \E files \in {scan_archive_directory(TRUE, input.listing,
                                            S(".html")).files_to_process} :
       \E operations \in {generate_rename_operations(
                              files, input.listing, input.filesystem,
                              CHOOSE now \in Clock : TRUE, hash_seed)} :
          last' = PlanCommand(files, operations, input.listing,
                              input.dry_run, input.force, input.interactive,
                              last.log)
    /\ UNCHANGED <<existing_stems, used_stems, issued, byte_budget, input>>

\* lines 1376-1379: the answer to 'Proceed with renaming n files?'
AnswerProceed ==
    /\ last.pc = "ask_proceed"
    /\ \E proceed \in BOOLEAN :
          last' = [last EXCEPT !.pc = IF proceed THEN "apply" ELSE "done",
                               !.log = Append(@, Asked("proceed", proceed))]
    /\ UNCHANGED <<existing_stems, used_stems, issued, byte_budget, input>>

\* number of files of the directory of a command
MaxListing == 2

\* names of archived files: two names of 256 bytes that differ behind the
\* 150th byte, a name of 258 bytes whose user token is 80 CJK characters,
\* a legacy name of 271 bytes that carries its URL, and the short 'a.html'
CommandNames ==
    {Rep(30701, 83) \o S("aa.html"), Rep(30701, 83) \o S("ab.html"),
     S("X ") \o Connective \o S(" ") \o Rep(23453, 80) \o S(": hi.html"),
     S("(") \o Rep(30701, 70) \o S(") [URL] ")
         \o quote(S("https://x.com/u/status/12345678")) \o S(".html"),
     S("a.html")}

\* the listings of up to MaxListing different names a file system of the
\* given kind can hold, in any order
CommandListings(filesystem) ==
    {listing \in UNION {[1..n -> CommandNames] : n \in 0..MaxListing} :
        /\ \A i, j \in 1..Len(listing) : i # j => listing[i] # listing[j]
        /\ \A i \in 1..Len(listing) : ~NameTooLong(listing[i], filesystem)}

InitCommand ==
    /\ existing_stems = {}
    /\ used_stems = {}
    /\ issued = <<>>
    /\ byte_budget = 0
    /\ \E filesystem \in {"bytes", "units"} :
          input \in [fn : {"optimize_filenames_command"},
                     filesystem : {filesystem},
                     listing : CommandListings(filesystem),
                     flag : BOOLEAN, dry_run : BOOLEAN,
                     interactive : BOOLEAN, force : BOOLEAN]
    /\ last = [fn |-> "optimize_filenames_command", pc |-> "flag",
               directory |-> NamesOf(input.listing), operations |-> <<>>,
               k |-> 1, successful |-> 0, failed |-> 0, log |-> <<>>]

NextCommand ==
    \/ CheckFeatureFlag
    \/ AnswerEnable
    \/ ScanAndPlan
    \/ AnswerProceed
    \/ ApplyOperation
    \/ ReturnCounts

SpecCommand == InitCommand /\ [][NextCommand]_vars

CommandPlanned ==
    /\ last.fn = "optimize_filenames_command"
    /\ last.pc \in {"ask_proceed", "apply", "done"}

\* C21: every operation generate_rename_operations produces has a new_name
\* (stem plus extension) of at most 255 UTF-8 bytes, whatever the name of
\* the file, names with a long multi-byte user token included.
C21_NewNameWithinCeiling ==
    CommandPlanned =>
        \A k \in 1..Len(last.operations) :
            ByteLen(last.operations[k].new_name) <= 255


\* the renames of the log
RenameEvents(log) == {j \in 1..Len(log) : log[j].event = "rename"}

\* C22: with --dry-run the command previews and returns without renaming
\* any file: at every point of the run the directory holds the names it
\* held at the start and no rename was performed, whatever force and
\* interactive are.
C22_DryRunRenamesNothing ==
    input.dry_run =>
        /\ last.directory = NamesOf(input.listing)
        /\ RenameEvents(last.log) = {}

\* a dry run under --force and --interactive that returned with an
\* operation it would have applied
C22_Witness ==
    /\ input.dry_run /\ input.force /\ input.interactive
    /\ last.pc = "done"
    /\ \E k \in 1..Len(last.operations) :
          /\ ~last.operations[k].conflict
          /\ last.operations[k].old_name # last.operations[k].new_name
          /\ last.operations[k].old_name \in last.directory

\* C23: with --interactive and without --force no file is renamed unless a
\* confirmation was requested and granted beforehand: every rename of the
\* log has a granted prompt in front of it, the offer to enable batch
\* processing not counted.
C23_ConfirmedBeforeRename ==
    (input.interactive /\ ~input.force) =>
        \A j \in RenameEvents(last.log) :
            \E i \in 1..(j - 1) :
                /\ last.log[i].event = "ask"
                /\ last.log[i].question # "enable"
                /\ last.log[i].granted


(***************************************************************************)
(* apply_operations(operations, force) called on its own.  The operations  *)
(* have the shapes lines 1012-1033 build: a rename, a file that keeps its  *)
(* name, a target that exists on disk, and a processing error.             *)
(***************************************************************************)
\* number of operations of a call of apply_operations
MaxOperations == 3

ApplyPool ==
    {RenameOperation(S("a.html"), S("c.html"), FALSE, ""),
     RenameOperation(S("b.html"), S("c.html"), FALSE, ""),
     RenameOperation(S("b.html"), S("b.html"), FALSE, ""),
     RenameOperation(S("a.html"), S("b.html"), TRUE,
                     "Target file already exists on disk"),
     RenameOperation(S("a.html"), S("a.html"), TRUE, "Processing error")}

InitApply ==
    /\ existing_stems = {}
    /\ used_stems = {}
    /\ issued = <<>>
    /\ byte_budget = 0
    /\ input \in [fn : {"apply_operations"}, filesystem : {"bytes"},
                  directory : {{S("a.html"), S("b.html")}, {S("b.html")}},
                  operations : UNION {[1..n -> ApplyPool] :
                                         n \in 0..MaxOperations},
                  force : BOOLEAN]
    /\ last = ApplyStart("apply_operations", input.directory,
                         input.operations, <<>>)

NextApply == ApplyOperation \/ ReturnCounts

SpecApply == InitApply /\ [][NextApply]_vars

MaxClause == 12

\* run, mark, run, mark, run: 'a' or U+77ED; '.', U+3002 or ','; then '!',
\* U+FF1F or nothing
SentenceTexts ==
    {Rep(c, n1) \o m1 \o Rep(c, n2) \o m2 \o Rep(97, n3) :
        c \in {97, 30701}, n1 \in {5, 9, MaxClause},
        m1 \in {<<46>>, <<12290>>, <<44>>}, n2 \in {0, 2, 5},
        m2 \in {<<33>>, <<65311>>, <<>>}, n3 \in {0, 6, MaxClause}}

SentenceBudgets == {14, 16, 20, 24, 30}

InitSentence ==
    /\ existing_stems = {}
    /\ used_stems = {}
    /\ issued = <<>>
    /\ byte_budget = 0
    /\ input \in [text : SentenceTexts, max_bytes : SentenceBudgets]
    /\ last = NoCall

NextSentence == CallSemanticTruncate

SpecSentence == InitSentence /\ [][NextSentence]_vars

\* the sentence-terminal marks of text whose prefix, mark included, has
\* between tenths/10 * max_bytes and max_bytes bytes
MarksInWindow(text, max_bytes, tenths) ==
    {k \in 1..Len(text) :
        /\ text[k] \in {46, 33, 63, 12290, 65281, 65311}
        /\ ByteLen(SubSeq(text, 1, k)) <= max_bytes
        /\ 10 * ByteLen(SubSeq(text, 1, k)) >= tenths * max_bytes}

\* C24 as stated: when the text does not fit and a sentence-terminal mark
\* has a prefix byte length within [0.5 * max_bytes, max_bytes], the result
\* is the prefix ending at the last such mark, with no ellipsis.
C24_Original ==
    (/\ SemanticTruncateCalled
     /\ ByteLen(last.text) > last.max_bytes
     /\ MarksInWindow(last.text, last.max_bytes, 5) # {}) =>
        last.result
            = SubSeq(last.text, 1,
                     Max(MarksInWindow(last.text, last.max_bytes, 5)))

\* C24 amended: when the text does not fit and max_bytes >= 15, a
\* sentence-terminal mark with a prefix byte length within
\* [0.6 * max_bytes, max_bytes] is preferred over any other cut, and the
\* result is the prefix ending at the first such mark, with no ellipsis;
\* without such a mark, and for max_bytes < 15, the result ends with the
\* ellipsis.
C24_FirstSentenceMark ==
    (SemanticTruncateCalled /\ ByteLen(last.text) > last.max_bytes) =>
        IF last.max_bytes >= 15
           /\ MarksInWindow(last.text, last.max_bytes, 6) # {}
        THEN last.result
                 = SubSeq(last.text, 1,
                          Min(MarksInWindow(last.text, last.max_bytes, 6)))
        ELSE last.result[Len(last.result)] = 8230

\* a text with two marks in the window, and a clause mark in front of
\* them, cut behind the first of the two
C24_Witness ==
    /\ SemanticTruncateCalled
    /\ ByteLen(last.text) > last.max_bytes
    /\ Cardinality(MarksInWindow(last.text, last.max_bytes, 6)) = 2
    /\ last.exit = "sentence"
    /\ last.result[Len(last.result)] = 12290
    /\ Len(last.result) < Max(MarksInWindow(last.text, last.max_bytes, 6))


\* 'Web_<connective>_'
WebPrefix == S("Web_") \o Connective \o S("_")

\* C25 as stated: when no platform is detected, the result of
\* create_standardized_filename begins with 'Web_<connective>_Content_[URL]_'
\* and the result of create_enhanced_content_filename begins with
\* 'Web_<connective>_Content', titles with an @mention included.
C25_Original ==
    /\ (EnhancedContentCalled /\ ~_extract_platform_info(last.title).found) =>
          StartsWith(last.result, WebPrefix \o S("Content"))
    /\ (StandardizedCalled /\ ~_extract_platform_info(last.title).found) =>
          StartsWith(last.result, WebPrefix \o S("Content_[URL]_"))

\* C25 amended: when no platform is detected both assemblers use the
\* platform 'Web'.  create_enhanced_content_filename takes the first
\* @mention of the title as the user and 'Content' when there is none;
\* create_standardized_filename takes 'Content', and its result begins
\* with 'Web_<connective>_Content_[URL]_' whenever max_bytes >= 46 (below
\* that the user is cut or replaced by 'User').
C25_GenericSkeleton ==
    /\ (EnhancedContentCalled /\ ~_extract_platform_info(last.title).found) =>
          StartsWith(last.result,
                     WebPrefix \o (IF MentionStarts(last.title) # {}
                                   THEN MentionUser(last.title)
                                   ELSE S("Content")))
    /\ (StandardizedCalled /\ ~_extract_platform_info(last.title).found) =>
          /\ StartsWith(last.result, WebPrefix)
          /\ last.max_bytes >= 46 =>
                StartsWith(last.result, WebPrefix \o S("Content_[URL]_"))

\* a title '@uu hello' without a platform, assembled under the user 'uu'
C25_Witness ==
    /\ EnhancedContentCalled
    /\ ~_extract_platform_info(last.title).found
    /\ last.title = S("@uu hello")
    /\ StartsWith(last.result, WebPrefix \o S("uu_"))
    /\ ~StartsWith(last.result, WebPrefix \o S("Content"))


\* ---------------------------------------------------------------------
\* _has_url_indicators on titles that carry exactly one documented
\* indicator (optimize.py 779-798, docker_service.py 257-267)
\* ---------------------------------------------------------------------

\* the indicators the documentation names: the explicit marker, the two
\* literal schemes, the social-media domains, the encoded scheme separator
DocumentedIndicators ==
    {S("[URL]"), S("https://"), S("http://"), S("twitter.com"), S("x.com"),
     S("instagram.com"), S("youtube.com"), S("linkedin.com"), S("reddit.com"),
     S("tiktok.com"), S("%3A%2F%2F")}

\* what stands in front of and behind the indicator in a drawn title
IndicatorHeads == {<<>>, S("Post "), S("a"), S("Read: ")}

IndicatorTails == {<<>>, S(" b"), S("!"), S(" - News")}

InitIndicators ==
    /\ existing_stems = {}
    /\ used_stems = {}
    /\ issued = <<>>
    /\ byte_budget = 0
    /\ input \in [head : IndicatorHeads, indicator : DocumentedIndicators, tail : IndicatorTails, url : {S("http://a.b/c")}]
    /\ last = NoCall

\* docker_service.py 257-267 on the title head + indicator + tail
CallHasUrlIndicators ==
    /\ \E title \in {input.head \o input.indicator \o input.tail} :
          last' = [fn |-> "_has_url_indicators",
                   title |-> title,
                   indicator |-> input.indicator,
                   result |-> _has_url_indicators(title),
                   branch |-> _generate_enhanced_filename(title, input.url).branch]
    /\ UNCHANGED <<existing_stems, used_stems, issued, byte_budget, input>>

NextIndicators == CallHasUrlIndicators

SpecIndicators == InitIndicators /\ [][NextIndicators]_vars

\* C26: _has_url_indicators is true for every title that contains one of
\* the documented indicators ('[URL]', 'http://', 'https://', a known
\* social-media domain, '%3A%2F%2F'), and _generate_enhanced_filename then
\* takes the URL-bearing (standardized) branch.
C26_EachIndicatorSelectsUrlBranch ==
    (last.fn = "_has_url_indicators" /\ Contains(last.title, last.indicator)) =>
        /\ last.result = TRUE
        /\ last.branch = "standardized"


(***************************************************************************)
(* DockerService._derive_output_file and _resolve_filename_conflict        *)
(* (services/docker_service.py 189-238, 273-325) on an output directory    *)
(* given as the set of its file names.                                     *)
(***************************************************************************)

\* the character references the drawn pages hold, with what html.unescape
\* puts in their place
EntityTable ==
    <<[lit |-> S("&amp;"), rep |-> 38], [lit |-> S("&lt;"), rep |-> 60],
      [lit |-> S("&gt;"), rep |-> 62], [lit |-> S("&quot;"), rep |-> 34],
      [lit |-> S("&#39;"), rep |-> 39]>>

\* the entries of EntityTable that start at position i of text
EntitiesAt(text, i) ==
    {k \in 1..Len(EntityTable) : HasAt(text, EntityTable[k].lit, i)}

\* html.unescape(text), one pass from left to right
unescape(text) ==
    LET inside(i) == \E s \in 1..(i - 1) : \E k \in EntitiesAt(text, s) :
                         i < s + Len(EntityTable[k].lit)
        kept == SelectSeq([i \in 1..Len(text) |-> i], LAMBDA i : ~inside(i))
    IN [j \in 1..Len(kept) |->
           IF EntitiesAt(text, kept[j]) = {} THEN text[kept[j]]
           ELSE EntityTable[Min(EntitiesAt(text, kept[j]))].rep]

\* re.search(r"<title>(.*?)</title>", html_content, IGNORECASE | DOTALL):
\* the leftmost opening tag that has a closing tag behind it, up to the
\* nearest closing tag
TitleMatch(html_content) ==
    LET lower == Lower(html_content)
        closes(p) == {q \in (p + 7)..Len(lower) : HasAt(lower, S("</title>"), q)}
        opens == {p \in 1..Len(lower) :
                     HasAt(lower, S("<title>"), p) /\ closes(p) # {}}
    IN IF opens = {} THEN [found |-> FALSE, group |-> <<>>]
       ELSE [found |-> TRUE,
             group |-> SubSeq(html_content, Min(opens) + 7,
                              Min(closes(Min(opens))) - 1)]

\* position of the first character of text from position from on that is
\* in chars, Len(text) + 1 when there is none
FirstOf(text, chars, from) ==
    Min({p \in from..Len(text) : text[p] \in chars} \cup {Len(text) + 1})

\* letters, digits, '+', '-' and '.': what a URL scheme is made of
SchemeChars == (48..57) \cup (65..90) \cup (97..122) \cup {43, 45, 46}

\* urlparse(url): scheme, netloc, path and query
urlparse(url) ==
    LET colon == FirstOf(url, {58}, 1)
        has_scheme == /\ colon > 1
                      /\ colon <= Len(url)
                      /\ \A p \in 1..(colon - 1) : url[p] \in SchemeChars
        rest == IF has_scheme THEN SubSeq(url, colon + 1, Len(url)) ELSE url
        has_netloc == HasAt(rest, S("//"), 1)
        netloc_end == IF has_netloc THEN FirstOf(rest, {47, 63, 35}, 3) ELSE 1
        path_end == FirstOf(rest, {63, 35}, netloc_end)
        query_end == FirstOf(rest, {35}, path_end)
    IN [scheme |-> IF has_scheme THEN Lower(SubSeq(url, 1, colon - 1)) ELSE <<>>,
        netloc |-> IF has_netloc THEN SubSeq(rest, 3, netloc_end - 1) ELSE <<>>,
        path |-> SubSeq(rest, netloc_end, path_end - 1),
        query |-> SubSeq(rest, path_end + 1, query_end - 1)]

\* lines 200-205: the title made of the URL
FallbackTitle(parsed_url) ==
    (IF parsed_url.netloc = <<>> THEN S("page") ELSE parsed_url.netloc)
        \o parsed_url.path
        \o (IF parsed_url.query = <<>> THEN <<>> ELSE S("?") \o parsed_url.query)

\* lines 191-205
DerivedTitle(url, html_content) ==
    LET match == TitleMatch(html_content)
        title == IF html_content = <<>> \/ ~match.found THEN <<>>
                 ELSE CollapseRuns(Strip(unescape(match.group), WhiteSpace),
                                   WhiteSpace)
    IN IF title = <<>> THEN FallbackTitle(urlparse(url)) ELSE title

\* paths.py 446-454
encode_url_for_filename(url, max_length) ==
    IF url = <<>> THEN S("no-url")
    ELSE IF Len(quote(url)) <= max_length THEN quote(url)
    ELSE Prefix(quote(url), max_length - 3) \o S("...")

\* paths.py 468-476, called without existing_names: optimize_filename and
\* the functions it calls take None for the empty set (paths.py 134-135,
\* 179, 200-201)
build_canonical_basename(title, url, max_title_length, now) ==
    S("(") \o optimize_filename(title, max_title_length, {}, now)
        \o S(") [URL] ") \o encode_url_for_filename(url, 60)

\* lines 219-223; the three characters the source appends are U+00E2,
\* U+20AC and U+00A6
_encode_url_for_filename(raw, max_len) ==
    IF Len(quote(raw)) > max_len
    THEN Prefix(quote(raw), max_len - 1) \o <<226, 8364, 166>>
    ELSE quote(raw)

\* lines 211-226
DerivedBase(title, url, use_optimization, use_enhanced_naming, now) ==
    IF use_optimization /\ use_enhanced_naming
    THEN _generate_enhanced_filename(title, url).stem
    ELSE IF use_optimization
    THEN build_canonical_basename(title, url, 100, now)
    ELSE S("(") \o title \o S(") [URL] ") \o _encode_url_for_filename(url, 180)

\* lines 228-232: the name of the candidate
WithExtension(sanitized) ==
    IF EndsWith(sanitized, S(".html")) THEN sanitized
    ELSE sanitized \o S(".html")

DerivedCandidate(title, url, use_optimization, use_enhanced_naming, now, hash_seed) ==
    WithExtension(safe_filename(DerivedBase(title, url, use_optimization, use_enhanced_naming, now), default_max_length, hash_seed))

\* line 290: the lower-cased stems of the '*.html' files of the directory
ExistingFiles(directory) ==
    {Lower(PathStem(name)) :
        name \in {n \in directory : EndsWith(n, S(".html"))}}

\* lines 292-304: unique_base of the enhanced resolution
UniqueBase(title, url, existing_files, now) ==
    _ensure_unique_filename(
        _generate_enhanced_filename(title \o S(" ") \o StrfDateTime(now), url).stem,
        existing_files, 150, now).stem

\* the while loop of lines 316-322 gives up when counter reaches this
safety_limit == 100

\* lines 306-322: the names new_candidate takes, the one ahead of the loop
\* at index 1 and the one made with counter at index counter + 1
ConflictNames(candidate, unique_base, use_enhanced, now, hash_seed) ==
    [k \in 1..safety_limit |->
        IF use_enhanced
        THEN safe_filename(IF k = 1 THEN unique_base ELSE unique_base \o S("_") \o Pad2(k - 1), default_max_length, hash_seed) \o PathSuffix(candidate)
        ELSE PathStem(candidate) \o S("_") \o StrfDateTime(now)
                 \o (IF k = 1 THEN <<>> ELSE S("_") \o Pad2(k - 1))
                 \o PathSuffix(candidate)]

\* what a call returns: a name, or the OSError of Path.exists() on a name
\* the file system does not take
Returned(name) == [outcome |-> "returned", name |-> name]

Raised == [outcome |-> "OSError", name |-> <<>>]

\* lines 315-324: new_candidate.exists() is evaluated on one name after the
\* other; the loop ends on the first name that is free, and on the last
\* name whether it is free or not
SafetyLoop(names, directory, filesystem) ==
    LET stops == {k \in 1..Len(names) :
                     \/ NameTooLong(names[k], filesystem)
                     \/ names[k] \notin directory}
    IN IF stops = {} THEN Returned(names[Len(names)])
       ELSE IF NameTooLong(names[Min(stops)], filesystem) THEN Raised
       ELSE Returned(names[Min(stops)])

\* lines 273-324; candidate exists when it is called
_resolve_filename_conflict(candidate, title, url, use_enhanced, directory, filesystem, now, hash_seed) ==
    CHOOSE r \in {SafetyLoop(ConflictNames(candidate, unique_base, use_enhanced, now, hash_seed), directory, filesystem) : unique_base \in {UniqueBase(title, url, ExistingFiles(directory), now)}} : TRUE

\* lines 231-238
DeriveFrom(candidate, title, url, use_enhanced_naming, directory, filesystem, now, hash_seed) ==
    IF NameTooLong(candidate, filesystem) THEN Raised
    ELSE IF candidate \notin directory THEN Returned(candidate)
    ELSE _resolve_filename_conflict(candidate, title, url, use_enhanced_naming, directory, filesystem, now, hash_seed)

\* lines 189-238; the two flags are the values of FF_FILENAME_OPTIMIZATION
\* and FF_ENHANCED_CONTENT_NAMING
_derive_output_file(url, html_content, directory, filesystem, use_optimization, use_enhanced_naming, now, hash_seed) ==
    CHOOSE r \in {DeriveFrom(DerivedCandidate(title, url, use_optimization, use_enhanced_naming, now, hash_seed), title, url, use_enhanced_naming, directory, filesystem, now, hash_seed) : title \in {DerivedTitle(url, html_content)}} : TRUE


\* pages the container printed: none, titles with runs of white space,
\* character references, a mention and a second title element, and titles
\* longer than the name assemblers keep
DerivePages ==
    {<<>>,
     S("<title>Hello  World</title>"),
     S("<TITLE>") \o <<10>> \o S(" a &amp; b: c ") \o <<10>> \o S("</TITLE>"),
     S("x<title>@uu hi</title><title>z</title>"),
     S("<title>Hello World ") \o [i \in 1..120 |-> S("Ab ")[((i - 1) % 3) + 1]] \o S("</title>"),
     S("<title>") \o Rep(65, 230) \o S("</title>")}

\* a status URL, a URL with query and fragment, a URL with a 3-byte
\* character, and the empty URL
DeriveUrls ==
    {S("https://x.com/u/status/12345678"),
     S("https://youtube.com/watch?v=abcdefghijk&list=PL0123456789#t=1"),
     S("http://a.b/") \o <<30701>>,
     <<>>}

\* how many names of ConflictNames a drawn directory already holds
TakenCounts == {0, 1, 2, safety_limit - 1, safety_limit}

\* output directories: empty, or the candidate of the call together with
\* the first taken names new_candidate would go through in a directory
\* that holds no lower-cased stem equal to the enhanced base
DeriveDirectories(candidate, title, url, use_enhanced, now) ==
    {{}} \cup
    UNION {{{candidate} \cup {ConflictNames(candidate, unique_base, use_enhanced, now, 0)[k] : k \in 1..taken} : taken \in TakenCounts} : unique_base \in {UniqueBase(title, url, {}, now)}}

DeriveInputs(url, html_content, use_optimization, use_enhanced_naming, now) ==
    [url : {url}, html_content : {html_content},
     use_optimization : {use_optimization},
     use_enhanced_naming : {use_enhanced_naming}, now : {now},
     filesystem : {"bytes"},
     directory : UNION {DeriveDirectories(candidate, DerivedTitle(url, html_content), url, use_enhanced_naming, now) : candidate \in {DerivedCandidate(DerivedTitle(url, html_content), url, use_optimization, use_enhanced_naming, now, 0)}}]

InitDerive ==
    /\ existing_stems = {}
    /\ used_stems = {}
    /\ issued = <<>>
    /\ byte_budget = 0
    /\ \E url \in DeriveUrls, html_content \in DerivePages, use_optimization \in BOOLEAN, use_enhanced_naming \in BOOLEAN :
          input \in DeriveInputs(url, html_content, use_optimization, use_enhanced_naming, 43200)
    /\ last = NoCall

\* archive_url, lines 143-146: the output file of a page printed to stdout
CallDeriveOutputFile ==
    /\ last = NoCall
    /\ \E hash_seed \in HashSeeds :
          \E r \in {_derive_output_file(input.url, input.html_content, input.directory, input.filesystem, input.use_optimization, input.use_enhanced_naming, input.now, hash_seed)} :
              last' = [fn |-> "_derive_output_file", outcome |-> r.outcome,
                       output_file |-> r.name]
    /\ UNCHANGED <<existing_stems, used_stems, issued, byte_budget, input>>

NextDerive == CallDeriveOutputFile

SpecDerive == InitDerive /\ [][NextDerive]_vars

\* C28: the path _derive_output_file returns does not exist in output_dir
\* when it is returned, however many archive files the directory holds.
C28_ReturnedPathIsFree ==
    (last.fn = "_derive_output_file" /\ last.outcome = "returned") =>
        last.output_file \notin input.directory


(***************************************************************************)
(* The file monitor (services/file_monitor.py): should_move_file,          *)
(* move_file_to_archive, scan_existing_files, the polling loop and the     *)
(* watchdog handler, on a watch directory that files keep arriving in.     *)
(***************************************************************************)

\* one element of a timestamp pattern: between lo and hi characters of
\* set, any number from lo on when hi is negative
Tok(set, lo, hi) == [set |-> set, lo |-> lo, hi |-> hi]

Digits == 48..57

\* [_\-/] and [:<U+FF1A>\.]
DateSeparators == {95, 45, 47}

TimeSeparators == {58, 65306, 46}

\* lines 93-99; with re.IGNORECASE a letter of a class stands for both
\* of its cases
timestamp_patterns ==
    <<<<Tok({40}, 1, 1), Tok(Digits, 1, -1), Tok(DateSeparators, 1, 1),
        Tok(Digits, 1, -1), Tok(DateSeparators, 1, 1), Tok(Digits, 1, -1),
        Tok(WhiteSpace, 1, -1), Tok(Digits, 1, -1), Tok(TimeSeparators, 1, 1),
        Tok(Digits, 1, -1), Tok(TimeSeparators, 0, 1), Tok(Digits, 0, -1),
        Tok(WhiteSpace, 0, -1), Tok({65, 80, 77, 97, 112, 109}, 0, -1),
        Tok({41}, 1, 1)>>,
      <<Tok({40}, 1, 1), Tok(Digits, 4, 4), Tok(DateSeparators, 1, 1),
        Tok(Digits, 1, 2), Tok(DateSeparators, 1, 1), Tok(Digits, 1, 2),
        Tok({95, 45, 84, 116} \cup WhiteSpace, 1, 1), Tok(Digits, 1, 2),
        Tok(TimeSeparators, 0, 1), Tok(Digits, 1, 2),
        Tok(TimeSeparators, 0, 1), Tok(Digits, 0, -1), Tok({41}, 1, 1)>>,
      <<Tok({40}, 1, 1), Tok(Digits, 8, 8), Tok({95, 45, 84, 116}, 1, 1),
        Tok(Digits, 6, 6), Tok({41}, 1, 1)>>,
      <<Tok({40}, 1, 1), Tok(Digits, 4, 4), Tok(DateSeparators, 1, 1),
        Tok(Digits, 1, 2), Tok(DateSeparators, 1, 1), Tok(Digits, 1, 2),
        Tok({41}, 1, 1)>>,
      <<Tok({40}, 1, 1), Tok(Digits, 1, -1), Tok(DateSeparators, 1, 1),
        Tok(Digits, 1, -1), Tok(DateSeparators, 1, 1), Tok(Digits, 1, -1),
        Tok({41}, 1, 1)>>>>

\* the elements of pattern from the k-th on match text from position p on
RECURSIVE TokensMatch(_, _, _, _)
TokensMatch(text, p, pattern, k) ==
    IF k > Len(pattern) THEN TRUE
    ELSE \E n \in pattern[k].lo..RunLen(text, p, pattern[k].set, FALSE) :
            /\ pattern[k].hi < 0 \/ n <= pattern[k].hi
            /\ TokensMatch(text, p + n, pattern, k + 1)

\* re.search(pattern, filename, re.IGNORECASE) finds a match
Search(pattern, filename) ==
    \E p \in 1..Len(filename) : TokensMatch(filename, p, pattern, 1)

\* lines 77-107 for a file whose path exists
MatchesCriteria(filename) ==
    /\ Lower(PathSuffix(filename)) = S(".html")
    /\ \/ Contains(filename, S("X ") \o Connective)
       \/ \E k \in 1..Len(timestamp_patterns) :
             Search(timestamp_patterns[k], filename)

\* lines 77-107: watch is the set of the names in the watch directory
should_move_file(filename, watch) ==
    filename \in watch /\ MatchesCriteria(filename)

\* lines 115-123: where the file goes in the archive directory
Destination(filename, archive, now) ==
    IF filename \in archive
    THEN PathStem(filename) \o S("_moved_") \o StrfDateTime(now)
             \o PathSuffix(filename)
    ELSE filename

\* lines 109-139: shutil.move either moves the file (moved, the call
\* returns True) or raises and leaves both directories as they were (the
\* call logs the error and returns False)
move_file_to_archive(st, filename, moved, now) ==
    IF moved
    THEN [st EXCEPT !.watch = @ \ {filename},
                    !.archive = @ \cup {Destination(filename, st.archive, now)}]
    ELSE st

\* lines 151-155 and 212-215: the body of the loop over glob("*.html") in
\* scan_existing_files and in _start_polling_monitoring
LoopBody(st, filename, moved, now) ==
    IF filename \in st.processed_files THEN st
    ELSE IF ~should_move_file(filename, st.watch) THEN st
    ELSE IF moved
    THEN [move_file_to_archive(st, filename, TRUE, now)
             EXCEPT !.processed_files = @ \cup {filename}]
    ELSE st

\* lines 46-57: HTMLFileHandler.process_file with the handler's own
\* processed_files; the result of move_file_to_archive is not looked at
process_file(st, filename, moved, now) ==
    IF filename \in st.handler_processed_files THEN st
    ELSE IF ~should_move_file(filename, st.watch) THEN st
    ELSE [move_file_to_archive(st, filename, moved, now)
             EXCEPT !.handler_processed_files = @ \cup {filename}]

\* events the observer may hold undelivered
MaxEvents == 2

\* names of files that arrive: one with the special marker, one with a
\* date in parentheses, one that matches no criterion
MonitorNames ==
    {S("X ") \o Connective \o S(" a.html"), S("b (2025-08-20).html"),
     S("notes.html")}

\* the '*.html' names of the watch directory
HtmlNames(watch) == {n \in watch : EndsWith(n, S(".html"))}

\* start_monitoring(use_watchdog) on a watch directory that holds any of
\* the names and an empty archive directory
InitMonitor ==
    /\ existing_stems = {}
    /\ used_stems = {}
    /\ issued = <<>>
    /\ byte_budget = 0
    /\ input \in [fn : {"start_monitoring"}, use_watchdog : BOOLEAN]
    /\ \E watch \in SUBSET MonitorNames :
          last = [fn |-> "start_monitoring", pc |-> "scan",
                  watch |-> watch, archive |-> {}, processed_files |-> {},
                  handler_processed_files |-> {}, todo |-> HtmlNames(watch),
                  events |-> <<>>]

\* a file is created in, or moved into, the watch directory; a running
\* observer queues on_created or on_moved for it (lines 36-44)
Arrive ==
    /\ \E filename \in MonitorNames \ last.watch :
          /\ last.pc = "watching" => Len(last.events) < MaxEvents
          /\ last' = [last EXCEPT
                        !.watch = @ \cup {filename},
                        !.events = IF last.pc = "watching"
                                   THEN Append(@, filename) ELSE @]
    /\ UNCHANGED <<existing_stems, used_stems, issued, byte_budget, input>>

\* one turn of the loop of scan_existing_files (lines 151-155); glob
\* yields the names in any order
ScanExistingFile ==
    /\ last.pc = "scan"
    /\ \E filename \in last.todo, moved \in BOOLEAN, now \in Clock :
          last' = [LoopBody(last, filename, moved, now)
                      EXCEPT !.todo = @ \ {filename}]
    /\ UNCHANGED <<existing_stems, used_stems, issued, byte_budget, input>>

\* lines 157-177: the scan is over; start_monitoring goes on to the
\* observer or to the polling loop
ScanExistingEnd ==
    /\ last.pc = "scan"
    /\ last.todo = {}
    /\ last' = [last EXCEPT !.pc = IF input.use_watchdog THEN "observer"
                                   ELSE "sleep"]
    /\ UNCHANGED <<existing_stems, used_stems, issued, byte_budget, input>>

\* lines 179-202: the observer starts, or setting it up raises and the
\* monitor falls back to polling
StartObserver ==
    /\ last.pc = "observer"
    /\ \E started \in BOOLEAN :
          last' = [last EXCEPT !.pc = IF started THEN "watching" ELSE "sleep"]
    /\ UNCHANGED <<existing_stems, used_stems, issued, byte_budget, input>>

\* lines 36-57: the handler takes the oldest event
HandleEvent ==
    /\ last.pc = "watching"
    /\ last.events # <<>>
    /\ \E moved \in BOOLEAN, now \in Clock :
          last' = [process_file(last, Head(last.events), moved, now)
                      EXCEPT !.events = Tail(@)]
    /\ UNCHANGED <<existing_stems, used_stems, issued, byte_budget, input>>

\* lines 208-212: after the sleep the polling loop lists the directory
PollStart ==
    /\ last.pc = "sleep"
    /\ last' = [last EXCEPT !.pc = "poll", !.todo = HtmlNames(last.watch)]
    /\ UNCHANGED <<existing_stems, used_stems, issued, byte_budget, input>>

\* lines 212-215: one turn of the for loop
PollFile ==
    /\ last.pc = "poll"
    /\ \E filename \in last.todo, moved \in BOOLEAN, now \in Clock :
          last' = [LoopBody(last, filename, moved, now)
                      EXCEPT !.todo = @ \ {filename}]
    /\ UNCHANGED <<existing_stems, used_stems, issued, byte_budget, input>>

\* line 218: time.sleep(self.check_interval)
PollEnd ==
    /\ last.pc = "poll"
    /\ last.todo = {}
    /\ last' = [last EXCEPT !.pc = "sleep"]
    /\ UNCHANGED <<existing_stems, used_stems, issued, byte_budget, input>>

\* the steps of the monitor's own threads
MonitorStep ==
    \/ ScanExistingFile
    \/ ScanExistingEnd
    \/ StartObserver
    \/ HandleEvent
    \/ PollStart
    \/ PollFile
    \/ PollEnd

NextMonitor == Arrive \/ MonitorStep

SpecMonitor == InitMonitor /\ [][NextMonitor]_vars

\* a step of the monitor that moves filename out of the watch directory
MoveSucceeds(filename) ==
    /\ MonitorStep
    /\ filename \in last.watch
    /\ filename \notin last'.watch

\* the monitor keeps running (its threads are never blocked for good:
\* the loops sleep for a bounded time and the handler is called for every
\* queued event), and a move that is attempted again and again succeeds
\* in the end
SpecMonitorLive ==
    /\ SpecMonitor
    /\ WF_vars(MonitorStep)
    /\ \A filename \in MonitorNames : SF_vars(MoveSucceeds(filename))

\* C29: while the monitor runs, every .html file in the watch directory
\* that satisfies should_move_file is eventually moved out of it, whether
\* an earlier move of it failed or an earlier file had the same name.
C29_EveryMatchingFileIsMoved ==
    \A filename \in MonitorNames :
        (last.fn = "start_monitoring" /\ should_move_file(filename, last.watch))
            ~> (filename \notin last.watch)


(***************************************************************************)
(* retry_failed_urls (core/retry.py 19-96) with CSVProcessor.load_urls,    *)
(* save_urls and is_valid_url (services/csv_processor.py 20-75).  The      *)
(* failed-URL file is the sequence of its lines below the header 'url';    *)
(* reading and writing it succeed.                                         *)
(***************************************************************************)

\* csv.writer quotes a field that holds ',', '"', CR or LF and doubles
\* the quotes in it
WriteRow(url) ==
    IF \E k \in 1..Len(url) : url[k] \in {44, 34, 13, 10}
    THEN <<34>> \o SelectSeq([k \in 1..(2 * Len(url)) |-> IF k % 2 = 1 THEN url[(k + 1) \div 2] ELSE IF url[k \div 2] = 34 THEN 34 ELSE -1], LAMBDA c : c # -1) \o <<34>>
    ELSE url

\* length of the run of '"' that ends at text[k], counted from position
\* from on
QuoteRun(text, k, from) ==
    k - Max({j \in (from - 1)..(k - 1) : j = from - 1 \/ text[j] # 34})

\* position of the quote that closes the quoted field opened at line[1]:
\* the end of the first run of an odd number of quotes
ClosingQuote(line) ==
    Min({q \in 2..Len(line) :
            /\ line[q] = 34
            /\ (q = Len(line) \/ line[q + 1] # 34)
            /\ QuoteRun(line, q, 2) % 2 = 1}
        \cup {Len(line) + 1})

\* the inside of a quoted field with every doubled quote once
Unquoted(field) ==
    SelectSeq([k \in 1..Len(field) |-> IF field[k] = 34 /\ QuoteRun(field, k, 1) % 2 = 0 THEN -1 ELSE field[k]], LAMBDA c : c # -1)

\* csv.DictReader under the header 'url': row.get('url', '') of a line
ReadUrl(line) ==
    IF line # <<>> /\ line[1] = 34
    THEN Unquoted(SubSeq(line, 2, ClosingQuote(line) - 1))
    ELSE SubSeq(line, 1, Min({k \in 1..Len(line) : line[k] = 44} \cup {Len(line) + 1}) - 1)

\* csv_processor.py 28-48: the URLs of a file that exists
load_urls(lines) ==
    LET url(k) == Strip(ReadUrl(lines[k]), WhiteSpace)
        kept == SelectSeq([k \in 1..Len(lines) |-> k],
                          LAMBDA k : /\ url(k) # <<>>
                                     /\ \/ StartsWith(url(k), S("http://"))
                                        \/ StartsWith(url(k), S("https://")))
    IN [j \in 1..Len(kept) |-> url(kept[j])]

\* csv_processor.py 20-26; urlparse raises ValueError on a host with one
\* of '[' and ']' and not the other
is_valid_url(url) ==
    /\ urlparse(url).scheme # <<>>
    /\ urlparse(url).netloc # <<>>
    /\ (91 \in NamesOf(urlparse(url).netloc)) = (93 \in NamesOf(urlparse(url).netloc))

\* csv_processor.py 50-75: the lines written below the header
save_urls(urls) ==
    LET kept == SelectSeq(urls, LAMBDA url : url # <<>> /\ is_valid_url(url))
    IN [j \in 1..Len(kept) |-> WriteRow(kept[j])]

\* rows a failed-URL file may hold
MaxRows == 2

\* attempts the caller may ask for with --max-attempts
MaxAttempts == 2

\* lines of a failed-URL file: a URL, the same URL between blanks, a URL
\* without host, a row that is no http URL, a quoted URL with a comma
FailedLines ==
    {S("https://a.b/c"), S(" https://a.b/c "), S("http:///p"),
     S("ftp://q.r/"), <<34>> \o S("https://x.y/?q=1,2") \o <<34>>}

NoFile == [exists |-> FALSE, lines |-> <<>>]

FailedFiles ==
    {NoFile} \cup
    {[exists |-> TRUE, lines |-> lines] :
        lines \in UNION {[1..n -> FailedLines] : n \in 0..MaxRows}}

InitRetry ==
    /\ existing_stems = {}
    /\ used_stems = {}
    /\ issued = <<>>
    /\ byte_budget = 0
    /\ input \in [fn : {"retry_failed_urls"}, failed_file : FailedFiles,
                  max_attempts : 0..MaxAttempts, dry_run : BOOLEAN,
                  docker_running : BOOLEAN]
    /\ last = [fn |-> "retry_failed_urls", pc |-> "start",
               failed_file |-> input.failed_file, urls |-> <<>>, i |-> 1,
               attempt |-> 0, successful_urls |-> <<>>,
               still_failed_urls |-> <<>>, attempts |-> <<>>]

\* retry.py 27-63: up to the first turn of the loop over urls
LoadFailedUrls ==
    /\ last.pc = "start"
    /\ \E urls \in {load_urls(last.failed_file.lines)} :
          last' = IF ~last.failed_file.exists THEN [last EXCEPT !.pc = "no_file"]
                  ELSE IF urls = <<>> THEN [last EXCEPT !.pc = "no_urls"]
                  ELSE IF input.dry_run
                  THEN [last EXCEPT !.pc = "dry_run", !.urls = urls]
                  ELSE IF ~input.docker_running
                  THEN [last EXCEPT !.pc = "exit", !.urls = urls]
                  ELSE [last EXCEPT !.pc = "retry", !.urls = urls]
    /\ UNCHANGED <<existing_stems, used_stems, issued, byte_budget, input>>

\* retry.py 69-81: one turn of the loop over range(max_attempts);
\* archive_url reports success, reports failure or raises
AttemptArchive ==
    /\ last.pc = "retry"
    /\ last.i <= Len(last.urls)
    /\ last.attempt < input.max_attempts
    /\ \E outcome \in {"success", "failure", "exception"} :
          last' = IF outcome = "success"
                  THEN [last EXCEPT
                          !.successful_urls = Append(@, last.urls[last.i]),
                          !.attempts = Append(@, [i |-> last.i, url |-> last.urls[last.i], success |-> TRUE]),
                          !.i = @ + 1, !.attempt = 0]
                  ELSE [last EXCEPT
                          !.attempts = Append(@, [i |-> last.i, url |-> last.urls[last.i], success |-> FALSE]),
                          !.attempt = @ + 1]
    /\ UNCHANGED <<existing_stems, used_stems, issued, byte_budget, input>>

\* retry.py 83-85: the loop over range(max_attempts) ran out
GiveUp ==
    /\ last.pc = "retry"
    /\ last.i <= Len(last.urls)
    /\ last.attempt >= input.max_attempts
    /\ last' = [last EXCEPT
                  !.still_failed_urls = Append(@, last.urls[last.i]),
                  !.i = @ + 1, !.attempt = 0]
    /\ UNCHANGED <<existing_stems, used_stems, issued, byte_budget, input>>

\* retry.py 87-96: the file is written again or removed
UpdateFailedFile ==
    /\ last.pc = "retry"
    /\ last.i > Len(last.urls)
    /\ last' = [last EXCEPT
                  !.pc = "done",
                  !.failed_file = IF last.still_failed_urls # <<>>
                                  THEN [exists |-> TRUE, lines |-> save_urls(last.still_failed_urls)]
                                  ELSE NoFile]
    /\ UNCHANGED <<existing_stems, used_stems, issued, byte_budget, input>>

NextRetry == LoadFailedUrls \/ AttemptArchive \/ GiveUp \/ UpdateFailedFile

SpecRetry == InitRetry /\ [][NextRetry]_vars

\* the URLs of the run none of whose attempts succeeded
AlwaysFailed(st) ==
    {st.urls[k] : k \in 1..Len(st.urls)} \
        {st.attempts[k].url : k \in {j \in 1..Len(st.attempts) : st.attempts[j].success}}

\* C30: when retry_failed_urls has updated the file, every loaded URL was
\* attempted at most max_attempts times and not again after its first
\* success, is in exactly one of successful_urls and still_failed_urls,
\* and the file holds exactly the URLs whose every attempt failed and
\* exists if and only if there is such a URL.
C30_NoUrlLost ==
    last.fn = "retry_failed_urls" /\ last.pc = "done" =>
        /\ \A url \in NamesOf(last.urls) :
              /\ Cardinality({k \in 1..Len(last.attempts) : last.attempts[k].url = url}) <= input.max_attempts
              /\ \A j, k \in 1..Len(last.attempts) :
                    (j < k /\ last.attempts[j].url = url /\ last.attempts[j].success)
                        => last.attempts[k].url # url
              /\ (url \in NamesOf(last.successful_urls)) # (url \in NamesOf(last.still_failed_urls))
        /\ last.failed_file.exists = (AlwaysFailed(last) # {})
        /\ NamesOf(load_urls(last.failed_file.lines)) = AlwaysFailed(last)

=============================================================================
